---- MODULE Spec2Model ----
(***************************************************************************)
(* Gondolin host: HTTP hooks (createHttpHooks) - host admission, secret    *)
(* placeholders and the per-secret destination allowlist.                  *)
(*                                                                         *)
(* Strings are sequences of character codes (ASCII; 65533 stands for the   *)
(* replacement character U+FFFD that a UTF-8 decoder emits for a byte that *)
(* is not ASCII).                                                          *)
(***************************************************************************)
EXTENDS Integers, Sequences, FiniteSets, TLC

\* ------------------------------------------------------------------------
\* JavaScript string primitives
\* ------------------------------------------------------------------------

Min(a, b) == IF a < b THEN a ELSE b

\* `const v = ...; body`
With(v, Body(_)) == Body(v)

\* the 0-based offsets at which sub occurs in s
Occurrences(s, sub) ==
    IF sub = <<>> THEN 0..Len(s)
    ELSE {i \in 0..(Len(s) - Len(sub)) :
              s[i + 1] = sub[1] /\ SubSeq(s, i + 1, i + Len(sub)) = sub}

\* String.prototype.includes
Includes(s, sub) == Occurrences(s, sub) # {}

\* String.prototype.indexOf: the first 1-based position of sub in s, 0 if none
IndexOf(s, sub) ==
    LET at == Occurrences(s, sub)
    IN IF at = {} THEN 0 ELSE 1 + CHOOSE i \in at : \A j \in at : i <= j

\* String.prototype.split with a non-empty separator
RECURSIVE Split(_, _)
Split(s, sep) ==
    LET i == IndexOf(s, sep)
    IN IF i = 0
       THEN <<s>>
       ELSE <<SubSeq(s, 1, i - 1)>> \o Split(SubSeq(s, i + Len(sep), Len(s)), sep)

\* Array.prototype.join
RECURSIVE Join(_, _)
Join(parts, sep) ==
    IF Len(parts) = 0 THEN <<>>
    ELSE IF Len(parts) = 1 THEN parts[1]
    ELSE parts[1] \o sep \o Join(Tail(parts), sep)

RECURSIVE Concat(_)
Concat(parts) == IF parts = <<>> THEN <<>> ELSE Head(parts) \o Concat(Tail(parts))

LowerChar(c) == IF c >= 65 /\ c <= 90 THEN c + 32 ELSE c

\* String.prototype.toLowerCase
ToLowerCase(s) == [i \in 1..Len(s) |-> LowerChar(s[i])]

\* the regex class \s (ASCII part): space, \t, \n, \v, \f, \r
IsSpace(c) == c = 32 \/ (c >= 9 /\ c <= 13)

\* String.prototype.trim
Trim(s) ==
    IF \A i \in 1..Len(s) : IsSpace(s[i]) THEN <<>>
    ELSE LET a == CHOOSE i \in 1..Len(s) :
                      ~IsSpace(s[i]) /\ \A j \in 1..(i - 1) : IsSpace(s[j])
             b == CHOOSE i \in 1..Len(s) :
                      ~IsSpace(s[i]) /\ \A j \in (i + 1)..Len(s) : IsSpace(s[j])
         IN SubSeq(s, a, b)

\* a replaceAll that replaces the first occurrence only
ReplaceFirst(value, search, replacement) ==
    IF search = <<>> \/ ~Includes(value, search) THEN value
    ELSE SubSeq(value, 1, IndexOf(value, search) - 1) \o replacement
         \o SubSeq(value, IndexOf(value, search) + Len(search), Len(value))

\* replaceAll(value, search, replacement)
replaceAll(value, search, replacement) ==
    IF search = <<>> THEN value
    ELSE Join(Split(value, search), replacement)

\* ------------------------------------------------------------------------
\* Buffer: hex, UTF-8 and base64
\* ------------------------------------------------------------------------

HexDigits == <<48, 49, 50, 51, 52, 53, 54, 55, 56, 57, 97, 98, 99, 100, 101, 102>>  \* "0123456789abcdef"

\* Buffer.prototype.toString("hex"): two lower-case digits per byte
ToHex(bytes) ==
    [k \in 1..(2 * Len(bytes)) |->
        IF k % 2 = 1 THEN HexDigits[(bytes[(k + 1) \div 2] \div 16) + 1]
        ELSE HexDigits[(bytes[k \div 2] % 16) + 1]]

ReplacementChar == 65533

\* Buffer.prototype.toString("utf8"): ASCII bytes are characters, any other
\* byte is shown as U+FFFD
Utf8Decode(bytes) ==
    [i \in 1..Len(bytes) |-> IF bytes[i] < 128 THEN bytes[i] ELSE ReplacementChar]

\* Buffer.from(string, "utf8"): U+FFFD is the three bytes EF BF BD
RECURSIVE Utf8EncodeRange(_, _, _)
Utf8EncodeRange(s, lo, hi) ==
    IF lo > hi THEN <<>>
    ELSE IF lo = hi THEN (IF s[lo] < 128 THEN <<s[lo]>> ELSE <<239, 191, 189>>)
    ELSE LET mid == (lo + hi) \div 2
         IN Utf8EncodeRange(s, lo, mid) \o Utf8EncodeRange(s, mid + 1, hi)

Utf8Encode(s) ==
    IF \A i \in 1..Len(s) : s[i] < 128 THEN s ELSE Utf8EncodeRange(s, 1, Len(s))

B64Alphabet == <<65, 66, 67, 68, 69, 70, 71, 72, 73, 74, 75, 76, 77, 78, 79, 80, 81, 82, 83, 84, 85, 86, 87, 88, 89, 90, 97, 98, 99, 100, 101, 102, 103, 104, 105, 106, 107, 108, 109, 110, 111, 112, 113, 114, 115, 116, 117, 118, 119, 120, 121, 122, 48, 49, 50, 51, 52, 53, 54, 55, 56, 57, 43, 47>>  \* "A-Za-z0-9+/"

\* the decoder's table: the sextet of a character, 64 if it has none; the
\* URL-safe "-" and "_" are accepted as 62 and 63
Unbase64(c) ==
    IF c >= 65 /\ c <= 90 THEN c - 65
    ELSE IF c >= 97 /\ c <= 122 THEN c - 71
    ELSE IF c >= 48 /\ c <= 57 THEN c + 4
    ELSE IF c = 43 \/ c = 45 THEN 62
    ELSE IF c = 47 \/ c = 95 THEN 63
    ELSE 64

\* the sextets the decoder reads: characters outside the alphabet are skipped,
\* "=" ends the input
IsSextetChar(c) == Unbase64(c) < 64

Sextets(s) ==
    LET pad   == {i \in 1..Len(s) : s[i] = 61}
        end   == IF pad = {} THEN Len(s) ELSE (CHOOSE i \in pad : \A j \in pad : i <= j) - 1
        valid == SelectSeq(SubSeq(s, 1, end), IsSextetChar)
    IN [k \in 1..Len(valid) |-> Unbase64(valid[k])]

\* the bytes of a run of sextets: three per full group of four, one or two for
\* a last group of two or three
SextetsToBytes(x) ==
    LET n == Len(x)
        count == ((n \div 4) * 3)
                 + (IF n % 4 = 2 THEN 1 ELSE IF n % 4 = 3 THEN 2 ELSE 0)
    IN [k \in 1..count |->
           LET g == 4 * ((k - 1) \div 3)
           IN CASE (k - 1) % 3 = 0 -> (x[g + 1] * 4) + (x[g + 2] \div 16)
                [] (k - 1) % 3 = 1 -> ((x[g + 2] % 16) * 16) + (x[g + 3] \div 4)
                [] OTHER -> ((x[g + 3] % 4) * 64) + x[g + 4]]

\* Buffer.from(token, "base64")
Base64Decode(token) == SextetsToBytes(Sextets(token))

B64Char(n) == B64Alphabet[n + 1]

\* Buffer.prototype.toString("base64"): standard alphabet, "=" padding
Base64Encode(b) ==
    LET n == Len(b)
        At(i) == IF i <= n THEN b[i] ELSE 0
    IN [k \in 1..(4 * ((n + 2) \div 3)) |->
           LET g == 3 * ((k - 1) \div 4)
           IN CASE (k - 1) % 4 = 0 -> B64Char(At(g + 1) \div 4)
                [] (k - 1) % 4 = 1 ->
                       B64Char(((At(g + 1) % 4) * 16) + (At(g + 2) \div 16))
                [] (k - 1) % 4 = 2 ->
                       IF g + 2 > n THEN 61
                       ELSE B64Char(((At(g + 2) % 16) * 4) + (At(g + 3) \div 64))
                [] OTHER -> IF g + 3 > n THEN 61 ELSE B64Char(At(g + 3) % 64)]

\* ------------------------------------------------------------------------
\* Host patterns
\* ------------------------------------------------------------------------

\* the class [.+?^${}()|[\]\\] of matchHostname's escape
RegexMetaChars == {46, 43, 63, 94, 36, 123, 125, 40, 41, 124, 91, 93, 92}

\* an escape that escapes nothing
EscapeNothing(part) == part

\* part.replace(/[.+?^${}()|[\]\\]/g, "\\$&")
RECURSIVE EscapeRegex(_)
EscapeRegex(part) ==
    IF part = <<>> THEN <<>>
    ELSE (IF Head(part) \in RegexMetaChars THEN <<92, Head(part)>> ELSE <<Head(part)>>)
         \o EscapeRegex(Tail(part))

RECURSIVE EscapeAll(_)
EscapeAll(parts) ==
    IF parts = <<>> THEN <<>> ELSE <<EscapeRegex(Head(parts))>> \o EscapeAll(Tail(parts))

\* new RegExp(source): the atoms of a pattern source. "\c" is the character c,
\* ".*" any run of characters, "." any one character, "^" and "$" the anchors,
\* any other character itself.
RECURSIVE RegexAtoms(_)
RegexAtoms(src) ==
    IF src = <<>> THEN <<>>
    ELSE IF Head(src) = 92 /\ Len(src) >= 2
         THEN <<[t |-> "lit", c |-> src[2]]>> \o RegexAtoms(SubSeq(src, 3, Len(src)))
    ELSE IF Head(src) = 46 /\ Len(src) >= 2 /\ src[2] = 42
         THEN <<[t |-> "anystar", c |-> 0]>> \o RegexAtoms(SubSeq(src, 3, Len(src)))
    ELSE IF Head(src) = 46 THEN <<[t |-> "any", c |-> 0]>> \o RegexAtoms(Tail(src))
    ELSE IF Head(src) = 94 THEN <<[t |-> "bol", c |-> 0]>> \o RegexAtoms(Tail(src))
    ELSE IF Head(src) = 36 THEN <<[t |-> "eol", c |-> 0]>> \o RegexAtoms(Tail(src))
    ELSE <<[t |-> "lit", c |-> Head(src)]>> \o RegexAtoms(Tail(src))

\* "." does not match a line terminator
IsLineTerminator(c) == c = 10 \/ c = 13

\* whether atoms i.. match s from position j on (flag "i": case is ignored)
RECURSIVE RegexMatchFrom(_, _, _, _)
RegexMatchFrom(atoms, i, s, j) ==
    IF i > Len(atoms) THEN TRUE
    ELSE LET a == atoms[i]
         IN CASE a.t = "bol" -> j = 1 /\ RegexMatchFrom(atoms, i + 1, s, j)
              [] a.t = "eol" -> j = Len(s) + 1 /\ RegexMatchFrom(atoms, i + 1, s, j)
              [] a.t = "lit" -> /\ j <= Len(s)
                                /\ LowerChar(s[j]) = LowerChar(a.c)
                                /\ RegexMatchFrom(atoms, i + 1, s, j + 1)
              [] a.t = "any" -> /\ j <= Len(s)
                                /\ ~IsLineTerminator(s[j])
                                /\ RegexMatchFrom(atoms, i + 1, s, j + 1)
              [] a.t = "anystar" ->
                    \E k \in j..(Len(s) + 1) :
                        /\ \A m \in j..(k - 1) : ~IsLineTerminator(s[m])
                        /\ RegexMatchFrom(atoms, i + 1, s, k)

\* RegExp.prototype.test
RegexTest(src, s) ==
    LET atoms == RegexAtoms(src)
    IN \E j \in 1..(Len(s) + 1) : RegexMatchFrom(atoms, 1, s, j)

matchHostname(hostname, pattern) ==
    IF pattern = <<>> THEN FALSE
    ELSE IF pattern = <<42>> THEN TRUE
    ELSE LET escaped == Join(EscapeAll(Split(pattern, <<42>>)), <<46, 42>>)
         IN RegexTest(<<94>> \o escaped \o <<36>>, hostname)

matchesAnyHost(hostname, patterns) ==
    LET normalized == ToLowerCase(hostname)
    IN \E i \in 1..Len(patterns) : matchHostname(normalized, patterns[i])

normalizeHostnamePattern(pattern) == ToLowerCase(Trim(pattern))

NormalizeAll(hosts) == [i \in 1..Len(hosts) |-> normalizeHostnamePattern(hosts[i])]

RECURSIVE UniqueFrom(_, _, _)
UniqueFrom(hosts, i, result) ==
    IF i > Len(hosts) THEN result
    ELSE LET normalized == normalizeHostnamePattern(hosts[i])
         IN IF normalized = <<>> \/ \E k \in 1..Len(result) : result[k] = normalized
            THEN UniqueFrom(hosts, i + 1, result)
            ELSE UniqueFrom(hosts, i + 1, Append(result, normalized))

uniqueHosts(hosts) == UniqueFrom(hosts, 1, <<>>)

\* ------------------------------------------------------------------------
\* URL and URLSearchParams (absolute URLs scheme://[userinfo@]host[:port]
\* [/path][?query][#fragment] with an ASCII host name)
\* ------------------------------------------------------------------------

\* the first position of s holding a character of cs, Len(s) + 1 if none
FirstOf(s, cs) ==
    IF \E i \in 1..Len(s) : s[i] \in cs
    THEN CHOOSE i \in 1..Len(s) : s[i] \in cs /\ \A j \in 1..(i - 1) : s[j] \notin cs
    ELSE Len(s) + 1

\* the last position of s holding the character c, 0 if none
LastOf(s, c) ==
    IF \E i \in 1..Len(s) : s[i] = c
    THEN CHOOSE i \in 1..Len(s) : s[i] = c /\ \A j \in (i + 1)..Len(s) : s[j] # c
    ELSE 0

IsAlpha(c) == (c >= 65 /\ c <= 90) \/ (c >= 97 /\ c <= 122)
IsDigit(c) == c >= 48 /\ c <= 57

\* new URL(url): the components, or valid = FALSE where the constructor throws
ParseUrl(url) ==
    LET sep       == IndexOf(url, <<58, 47, 47>>)
        scheme    == SubSeq(url, 1, sep - 1)
        rest      == SubSeq(url, sep + 3, Len(url))
        authEnd   == FirstOf(rest, {47, 63, 35})
        authority == SubSeq(rest, 1, authEnd - 1)
        at        == LastOf(authority, 64)
        userinfo  == SubSeq(authority, 1, at - 1)
        hostport  == SubSeq(authority, at + 1, Len(authority))
        colon     == LastOf(hostport, 58)
        host      == IF colon = 0 THEN hostport ELSE SubSeq(hostport, 1, colon - 1)
        port      == IF colon = 0 THEN <<>> ELSE SubSeq(hostport, colon + 1, Len(hostport))
        tail      == SubSeq(rest, authEnd, Len(rest))
        hashAt    == FirstOf(tail, {35})
        beforeHash == SubSeq(tail, 1, hashAt - 1)
        queryAt   == FirstOf(beforeHash, {63})
        path      == SubSeq(beforeHash, 1, queryAt - 1)
        query     == SubSeq(beforeHash, queryAt + 1, Len(beforeHash))
    IN IF sep <= 1 \/ host = <<>> \/ \E i \in 1..Len(scheme) : ~IsAlpha(scheme[i])
       THEN [valid |-> FALSE, scheme |-> <<>>, userinfo |-> <<>>, hostname |-> <<>>,
             port |-> <<>>, pathname |-> <<>>, search |-> <<>>, hash |-> <<>>]
       ELSE [valid |-> TRUE,
             scheme |-> ToLowerCase(scheme),
             userinfo |-> userinfo,
             hostname |-> ToLowerCase(host),
             port |-> port,
             pathname |-> IF path = <<>> THEN <<47>> ELSE path,
             search |-> IF query = <<>> THEN <<>> ELSE <<63>> \o query,
             hash |-> IF hashAt > Len(tail) \/ hashAt = Len(tail) THEN <<>>
                      ELSE SubSeq(tail, hashAt, Len(tail))]

\* URL.prototype.toString
UrlToString(u) ==
    u.scheme \o <<58, 47, 47>>
    \o (IF u.userinfo = <<>> THEN <<>> ELSE u.userinfo \o <<64>>)
    \o u.hostname
    \o (IF u.port = <<>> THEN <<>> ELSE <<58>> \o u.port)
    \o u.pathname \o u.search \o u.hash

getHostname(request) ==
    With(ParseUrl(request.url), LAMBDA u :
        IF u.valid THEN ToLowerCase(u.hostname) ELSE <<>>)

HexValue(c) ==
    IF IsDigit(c) THEN c - 48
    ELSE IF c >= 97 /\ c <= 102 THEN c - 87
    ELSE IF c >= 65 /\ c <= 70 THEN c - 55
    ELSE 16

\* application/x-www-form-urlencoded decoding of one name or value: "+" is a
\* space, "%XX" the byte XX
RECURSIVE PercentDecodePieces(_)
PercentDecodePieces(pieces) ==
    IF pieces = <<>> THEN <<>>
    ELSE LET p == Head(pieces)
         IN (IF Len(p) >= 2 /\ HexValue(p[1]) < 16 /\ HexValue(p[2]) < 16
             THEN <<(HexValue(p[1]) * 16) + HexValue(p[2])>> \o SubSeq(p, 3, Len(p))
             ELSE <<37>> \o p)
            \o PercentDecodePieces(Tail(pieces))

FormDecodeBytes(s) ==
    LET spaced == [i \in 1..Len(s) |-> IF s[i] = 43 THEN 32 ELSE s[i]]
        pieces == Split(spaced, <<37>>)
    IN Head(pieces) \o PercentDecodePieces(Tail(pieces))

FormDecode(s) == Utf8Decode(FormDecodeBytes(s))

UpperHexDigits == <<48, 49, 50, 51, 52, 53, 54, 55, 56, 57, 65, 66, 67, 68, 69, 70>>  \* "0123456789ABCDEF"

\* application/x-www-form-urlencoded serialising of one name or value
RECURSIVE FormEncodeRange(_, _, _)
FormEncodeRange(b, lo, hi) ==
    IF lo > hi THEN <<>>
    ELSE IF lo = hi
         THEN (IF IsAlpha(b[lo]) \/ IsDigit(b[lo]) \/ b[lo] \in {42, 45, 46, 95}
               THEN <<b[lo]>>
               ELSE IF b[lo] = 32 THEN <<43>>
               ELSE <<37, UpperHexDigits[(b[lo] \div 16) + 1],
                      UpperHexDigits[(b[lo] % 16) + 1]>>)
    ELSE LET mid == (lo + hi) \div 2
         IN FormEncodeRange(b, lo, mid) \o FormEncodeRange(b, mid + 1, hi)

FormEncodeBytes(b) == FormEncodeRange(b, 1, Len(b))

FormEncode(s) == FormEncodeBytes(Utf8Encode(s))

\* url.searchParams.entries(): the decoded <<name, value>> pairs of a search
\* string ("?" included)
RECURSIVE ParamsOf(_)
ParamsOf(pieces) ==
    IF pieces = <<>> THEN <<>>
    ELSE LET piece == Head(pieces)
             eq    == IndexOf(piece, <<61>>)
         IN (IF piece = <<>> THEN <<>>
             ELSE IF eq = 0 THEN << <<FormDecode(piece), <<>>>> >>
             ELSE << <<FormDecode(SubSeq(piece, 1, eq - 1)),
                       FormDecode(SubSeq(piece, eq + 1, Len(piece)))>> >>)
            \o ParamsOf(Tail(pieces))

SearchParams(search) ==
    IF search = <<>> THEN <<>> ELSE ParamsOf(Split(Tail(search), <<38>>))

\* URLSearchParams.prototype.toString
RECURSIVE ParamsToString(_)
ParamsToString(params) ==
    IF params = <<>> THEN <<>>
    ELSE FormEncode(Head(params)[1]) \o <<61>> \o FormEncode(Head(params)[2])
         \o (IF Len(params) = 1 THEN <<>> ELSE <<38>> \o ParamsToString(Tail(params)))

\* ------------------------------------------------------------------------
\* Secrets: the per-secret destination check and placeholder substitution
\* ------------------------------------------------------------------------

NoError == [kind |-> "none", secret |-> "", host |-> <<>>]

\* a function's outcome: it returned value, or it threw error
Return(v) == [threw |-> FALSE, value |-> v, error |-> NoError]
Throw(e) == [threw |-> TRUE, value |-> <<>>, error |-> e]

\* the statements after a call: skipped if the call threw
Then(outcome, Rest(_)) == IF outcome.threw THEN outcome ELSE Rest(outcome.value)

StrUnknown == <<117, 110, 107, 110, 111, 119, 110>>  \* "unknown"

\* new HttpRequestBlockedError(`secret ${name} not allowed for host: ${hostname || "unknown"}`)
HttpRequestBlockedError(name, hostname) ==
    [kind |-> "HttpRequestBlockedError", secret |-> name,
     host |-> IF hostname = <<>> THEN StrUnknown ELSE hostname]

\* an assertion that lets every host pass
AssertNothing(entry, hostname) == Return(<<>>)

assertSecretAllowedForHost(entry, hostname) ==
    IF matchesAnyHost(hostname, entry.hosts) THEN Return(<<>>)
    ELSE Throw(HttpRequestBlockedError(entry.name, hostname))

RECURSIVE ReplaceInStringFrom(_, _, _, _)
ReplaceInStringFrom(updated, hostname, entries, i) ==
    IF i > Len(entries) THEN Return(updated)
    ELSE IF ~Includes(updated, entries[i].placeholder)
    THEN ReplaceInStringFrom(updated, hostname, entries, i + 1)
    ELSE Then(assertSecretAllowedForHost(entries[i], hostname), LAMBDA allowed :
             ReplaceInStringFrom(
                 replaceAll(updated, entries[i].placeholder, entries[i].value),
                 hostname, entries, i + 1))

replaceSecretPlaceholdersInString(value, hostname, entries) ==
    ReplaceInStringFrom(value, hostname, entries, 1)

StrBasic == <<98, 97, 115, 105, 99>>  \* "basic"
StrAuthorization == <<97, 117, 116, 104, 111, 114, 105, 122, 97, 116, 105, 111, 110>>  \* "authorization"
StrProxyAuthorization == <<112, 114, 111, 120, 121, 45, 97, 117, 116, 104, 111, 114, 105, 122, 97, 116, 105, 111, 110>>  \* "proxy-authorization"

\* /^(authorization|proxy-authorization)$/i.test(headerName)
IsCredentialHeader(headerName) ==
    ToLowerCase(headerName) \in {StrAuthorization, StrProxyAuthorization}

\* value.match(/^(Basic)(\s+)(\S+)(\s*)$/i): the four groups, or matched = FALSE
BasicAuthMatch(value) ==
    LET n        == Len(value)
        afterWs  == IF \E i \in 6..n : ~IsSpace(value[i])
                    THEN CHOOSE i \in 6..n :
                             ~IsSpace(value[i]) /\ \A j \in 6..(i - 1) : IsSpace(value[j])
                    ELSE n + 1
        afterTok == IF \E i \in afterWs..n : IsSpace(value[i])
                    THEN CHOOSE i \in afterWs..n :
                             IsSpace(value[i]) /\ \A j \in afterWs..(i - 1) : ~IsSpace(value[j])
                    ELSE n + 1
    IN IF /\ n >= 7
          /\ ToLowerCase(SubSeq(value, 1, 5)) = StrBasic
          /\ afterWs > 6
          /\ afterTok > afterWs
          /\ \A i \in afterTok..n : IsSpace(value[i])
       THEN [matched |-> TRUE, scheme |-> SubSeq(value, 1, 5),
             whitespace |-> SubSeq(value, 6, afterWs - 1),
             token |-> SubSeq(value, afterWs, afterTok - 1),
             trailing |-> SubSeq(value, afterTok, n)]
       ELSE [matched |-> FALSE, scheme |-> <<>>, whitespace |-> <<>>,
             token |-> <<>>, trailing |-> <<>>]

\* a decoder that never recognises a Basic token
DecodeNoBasicAuth(value) == [isNull |-> TRUE, text |-> <<>>]

\* decodeBasicAuth: isNull, or the decoded token
decodeBasicAuth(value) ==
    With(BasicAuthMatch(value), LAMBDA match :
        IF ~match.matched THEN [isNull |-> TRUE, text |-> <<>>]
        ELSE [isNull |-> FALSE, text |-> Utf8Decode(Base64Decode(match.token))])

\* a value check that never finds a value
ValueNeverInHeaders(headers, entry) == FALSE

requestContainsSecretValueInHeaders(headers, entry) ==
    IF entry.value = <<>> THEN FALSE
    ELSE \E h \in 1..Len(headers) :
            /\ headers[h].value # <<>>
            /\ \/ Includes(headers[h].value, entry.value)
               \/ /\ IsCredentialHeader(headers[h].name)
                  /\ With(decodeBasicAuth(headers[h].value), LAMBDA decoded :
                         /\ ~decoded.isNull
                         /\ decoded.text # <<>>
                         /\ Includes(decoded.text, entry.value))

\* a value check that never finds a value in the query
ValueNeverInQuery(url, entry) == FALSE

requestContainsSecretValueInQuery(url, entry) ==
    IF entry.value = <<>> THEN FALSE
    ELSE With(ParseUrl(url), LAMBDA parsed :
             IF ~parsed.valid THEN FALSE
             ELSE IF parsed.search = <<>> THEN FALSE
             ELSE With(SearchParams(parsed.search), LAMBDA params :
                      \E k \in 1..Len(params) :
                          \/ Includes(params[k][1], entry.value)
                          \/ Includes(params[k][2], entry.value)))

RECURSIVE AssertValuesFrom(_, _, _, _, _)
AssertValuesFrom(request, hostname, entries, checkQuery, i) ==
    IF i > Len(entries) THEN Return(<<>>)
    ELSE IF matchesAnyHost(hostname, entries[i].hosts)
    THEN AssertValuesFrom(request, hostname, entries, checkQuery, i + 1)
    ELSE IF requestContainsSecretValueInHeaders(request.headers, entries[i])
    THEN Throw(HttpRequestBlockedError(entries[i].name, hostname))
    ELSE IF checkQuery /\ requestContainsSecretValueInQuery(request.url, entries[i])
    THEN Throw(HttpRequestBlockedError(entries[i].name, hostname))
    ELSE AssertValuesFrom(request, hostname, entries, checkQuery, i + 1)

\* a value check that blocks every request that holds the value of a secret,
\* whatever its host
BlockEveryValue(request, hostname, entries, checkQuery) ==
    IF \E i \in 1..Len(entries) :
           \/ requestContainsSecretValueInHeaders(request.headers, entries[i])
           \/ (checkQuery /\ requestContainsSecretValueInQuery(request.url, entries[i]))
    THEN Throw(HttpRequestBlockedError(entries[1].name, hostname))
    ELSE Return(<<>>)

assertSecretValuesAllowedForHost(request, hostname, entries, checkQuery) ==
    IF Len(entries) = 0 THEN Return(<<>>)
    ELSE AssertValuesFrom(request, hostname, entries, checkQuery, 1)

\* a substitution that encodes the token again also when nothing in it was
\* replaced
ReencodeBasicAlways(headerName, headerValue, hostname, entries) ==
    IF ~IsCredentialHeader(headerName) THEN Return(headerValue)
    ELSE With(BasicAuthMatch(headerValue), LAMBDA match :
        IF ~match.matched THEN Return(headerValue)
        ELSE Then(replaceSecretPlaceholdersInString(
                      Utf8Decode(Base64Decode(match.token)), hostname, entries),
                  LAMBDA updatedDecoded :
                      Return(match.scheme \o match.whitespace
                             \o Base64Encode(Utf8Encode(updatedDecoded))
                             \o match.trailing)))

replaceBasicAuthSecretPlaceholders(headerName, headerValue, hostname, entries) ==
    IF ~IsCredentialHeader(headerName) THEN Return(headerValue)
    ELSE With(BasicAuthMatch(headerValue), LAMBDA match :
        IF ~match.matched THEN Return(headerValue)
        ELSE With(Utf8Decode(Base64Decode(match.token)), LAMBDA decoded :
            Then(replaceSecretPlaceholdersInString(decoded, hostname, entries),
                 LAMBDA updatedDecoded :
                     IF updatedDecoded = decoded THEN Return(headerValue)
                     ELSE Return(match.scheme \o match.whitespace
                                 \o Base64Encode(Utf8Encode(updatedDecoded))
                                 \o match.trailing))))

RECURSIVE ReplaceInHeadersFrom(_, _, _, _)
ReplaceInHeadersFrom(headers, hostname, entries, h) ==
    IF h > Len(headers) THEN Return(headers)
    ELSE Then(replaceSecretPlaceholdersInString(headers[h].value, hostname, entries),
              LAMBDA plain :
        Then(replaceBasicAuthSecretPlaceholders(headers[h].name, plain, hostname, entries),
             LAMBDA updated :
                 ReplaceInHeadersFrom([headers EXCEPT ![h].value = updated],
                                      hostname, entries, h + 1)))

replaceSecretPlaceholdersInHeaders(request, hostname, entries) ==
    IF Len(entries) = 0 THEN Return(request.headers)
    ELSE ReplaceInHeadersFrom(request.headers, hostname, entries, 1)

RECURSIVE ReplaceInParamsFrom(_, _, _, _, _)
ReplaceInParamsFrom(params, hostname, entries, k, updatedParams) ==
    IF k > Len(params) THEN Return(updatedParams)
    ELSE Then(replaceSecretPlaceholdersInString(params[k][1], hostname, entries),
              LAMBDA updatedName :
        Then(replaceSecretPlaceholdersInString(params[k][2], hostname, entries),
             LAMBDA updatedValue :
                 ReplaceInParamsFrom(params, hostname, entries, k + 1,
                                     Append(updatedParams, <<updatedName, updatedValue>>))))

\* a substitution in the query that does not look at the flag
ReplaceInUrlWhateverFlag(url, hostname, entries, enabled) ==
    IF Len(entries) = 0 THEN Return(url)
    ELSE With(ParseUrl(url), LAMBDA parsed :
        IF ~parsed.valid \/ parsed.search = <<>> THEN Return(url)
        ELSE With(SearchParams(parsed.search), LAMBDA params :
            Then(ReplaceInParamsFrom(params, hostname, entries, 1, <<>>),
                 LAMBDA updatedParams :
                     IF updatedParams = params THEN Return(url)
                     ELSE Return(UrlToString(
                              [parsed EXCEPT !.search =
                                  <<63>> \o ParamsToString(updatedParams)])))))

replaceSecretPlaceholdersInUrlParameters(url, hostname, entries, enabled) ==
    IF ~enabled \/ Len(entries) = 0 THEN Return(url)
    ELSE With(ParseUrl(url), LAMBDA parsed :
        IF ~parsed.valid THEN Return(url)
        ELSE IF parsed.search = <<>> THEN Return(url)
        ELSE With(SearchParams(parsed.search), LAMBDA params :
            Then(ReplaceInParamsFrom(params, hostname, entries, 1, <<>>),
                 LAMBDA updatedParams :
                     IF updatedParams = params THEN Return(url)
                     ELSE With(ParamsToString(updatedParams), LAMBDA nextSearch :
                              Return(UrlToString(
                                  [parsed EXCEPT !.search =
                                      IF nextSearch = <<>> THEN <<>>
                                      ELSE <<63>> \o nextSearch]))))))

\* the calls applySecretsToRequest makes, in order
ApplySteps ==
    <<"assertSecretValuesAllowedForHost", "replaceSecretPlaceholdersInHeaders",
      "replaceSecretPlaceholdersInUrlParameters">>

\* an outcome of applySecretsToRequest reached after its first n calls
Stepped(outcome, n) ==
    [threw |-> outcome.threw, value |-> outcome.value, error |-> outcome.error,
     steps |-> SubSeq(ApplySteps, 1, n)]

\* applySecretsToRequest, with the values it closes over as parameters; steps
\* lists the calls it made
applySecretsToRequest(request, secretEntries, replaceSecretsInQuery) ==
    With(getHostname(request), LAMBDA hostname :
    With(assertSecretValuesAllowedForHost(
             request, hostname, secretEntries, replaceSecretsInQuery), LAMBDA checked :
        IF checked.threw THEN Stepped(checked, 1)
        ELSE With(replaceSecretPlaceholdersInHeaders(request, hostname, secretEntries),
                  LAMBDA headers :
            IF headers.threw THEN Stepped(headers, 2)
            ELSE With(replaceSecretPlaceholdersInUrlParameters(
                          request.url, hostname, secretEntries, replaceSecretsInQuery),
                      LAMBDA url :
                Stepped(IF url.threw THEN url
                        ELSE Return([request EXCEPT !.url = url.value,
                                                    !.headers = headers.value]), 3)))))

\* ------------------------------------------------------------------------
\* createHttpHooks
\* ------------------------------------------------------------------------

VARIABLES
    options,   \* the CreateHttpHooksOptions given to createHttpHooks
    rng,       \* crypto.randomBytes(24): the results of its calls in order
               \* (draws) and how many calls were made (calls)
    hooks,     \* what createHttpHooks returned (created = FALSE before the call)
    call,      \* the hook call in progress: its input and its outcome
    backend,   \* the InMemoryFsBackend: its entries, nextIno and the handles
               \* it has opened (created = FALSE where there is none)
    vfs,       \* the SandboxVfsProvider: its hooks and its backend's readonly
    events,    \* what the hooks and the backend have seen, in order
    tasks,     \* the calls made through the provider and its handles, in the
               \* order they were made, each with its position and outcome
    net        \* the network plane: a TCP connection, the DNS stub's name
               \* binding or a flow under classification (created = FALSE
               \* where there is none)

httpVars == <<options, rng, hooks, call>>

vfsVars == <<backend, vfs, events, tasks>>

netVars == <<net>>

vars == <<options, rng, hooks, call, backend, vfs, events, tasks, net>>

\* no file system in the states of the HTTP hooks
NoVfs ==
    /\ backend = [created |-> FALSE]
    /\ vfs = [created |-> FALSE]
    /\ events = <<>>
    /\ tasks = <<>>

NoNet == net = [created |-> FALSE]

NumRandomBytes == 24

PlaceholderPrefix == <<71, 79, 78, 68, 79, 76, 73, 78, 95, 83, 69, 67, 82, 69, 84, 95>>  \* "GONDOLIN_SECRET_"

\* `GONDOLIN_SECRET_${crypto.randomBytes(24).toString("hex")}`
MakePlaceholder(bytes) == PlaceholderPrefix \o ToHex(bytes)

\* an option that may be omitted is "undefined", "true" or "false"; this is
\* `option ?? default`
Coalesce(option, default) == IF option = "undefined" THEN default ELSE option = "true"

\* the loop over Object.entries(options.secrets): draws[i] is the result of the
\* i-th call of crypto.randomBytes
SecretEntriesOf(secrets, draws) ==
    [i \in 1..Len(secrets) |->
        [name        |-> secrets[i].name,
         placeholder |-> MakePlaceholder(draws[i]),
         value       |-> secrets[i].value,
         hosts       |-> NormalizeAll(secrets[i].hosts)]]

\* an env that exports the values themselves
EnvOfValues(secrets, draws) ==
    [n \in {secrets[i].name : i \in 1..Len(secrets)} |->
        secrets[CHOOSE i \in 1..Len(secrets) : secrets[i].name = n].value]

EnvOf(secrets, draws) ==
    [n \in {secrets[i].name : i \in 1..Len(secrets)} |->
        MakePlaceholder(draws[CHOOSE i \in 1..Len(secrets) : secrets[i].name = n])]

\* an allow list that leaves the hosts of the secrets out
NoSecretHosts(entries) == <<>>

RECURSIVE FlatHosts(_)
FlatHosts(entries) ==
    IF entries = <<>> THEN <<>> ELSE Head(entries).hosts \o FlatHosts(Tail(entries))

createHttpHooks(opts, draws) ==
    LET secretEntries == SecretEntriesOf(opts.secrets, draws)
    IN [created             |-> TRUE,
        env                 |-> EnvOf(opts.secrets, draws),
        secretEntries       |-> secretEntries,
        blockInternalRanges |-> Coalesce(opts.blockInternalRanges, TRUE),
        allowedHosts        |-> uniqueHosts(opts.allowedHosts \o FlatHosts(secretEntries)),
        hasOnRequest        |-> opts.has.onRequest]

NotCreated ==
    [created |-> FALSE, env |-> <<>>, secretEntries |-> <<>>,
     blockInternalRanges |-> TRUE, allowedHosts |-> <<>>, hasOnRequest |-> FALSE]

\* ------------------------------------------------------------------------
\* httpHooks.onRequestHead and httpHooks.onRequest
\* ------------------------------------------------------------------------

NullHead == [isNull |-> TRUE, method |-> "", url |-> <<>>, headers |-> <<>>, body |-> "null"]

NoRequest ==
    [method |-> "", url |-> <<>>, headers |-> <<>>, body |-> "null",
     requestForBodyHook |-> NullHead]

Idle ==
    [op |-> "none", request |-> NoRequest, userHook |-> "none", hookArg |-> NoRequest,
     hookReturned |-> NoRequest, hooked |-> NoRequest,
     outcome |-> "none", error |-> NoError, result |-> NoRequest, trace |-> <<>>]

\* a handler that drops what the user hook returns
IgnoreUserHook(request, hook) == request

\* what the user hook is called with: `hook(nextRequest)`, nextRequest being
\* the request the handler was given
HookArg(request, hook) == IF hook.kind = "absent" THEN NoRequest ELSE request

\* `updated = await hook(nextRequest); if (updated) nextRequest = updated`
RunUserHook(request, hook) ==
    IF hook.kind = "updated" THEN hook.request ELSE request

\* a handler that keeps a copy of the head whether or not options.onRequest is
\* given
AlwaysForBodyHook(nextRequest, opts) ==
    [isNull |-> FALSE, method |-> nextRequest.method, url |-> nextRequest.url,
     headers |-> nextRequest.headers, body |-> "null"]

\* the copy of the head kept for onRequest: `options.onRequest ? {...} : null`
RequestForBodyHook(nextRequest, opts) ==
    IF opts.has.onRequest
    THEN [isNull |-> FALSE, method |-> nextRequest.method, url |-> nextRequest.url,
          headers |-> nextRequest.headers, body |-> "null"]
    ELSE NullHead

\* `out`: nextRequest with the substituted url and headers, and the copy of the
\* head if there is one and nextRequest carries none
HeadOut(nextRequest, substituted, requestForBodyHook) ==
    [nextRequest EXCEPT
        !.url = substituted.url,
        !.headers = substituted.headers,
        !.requestForBodyHook =
            IF ~requestForBodyHook.isNull /\ nextRequest.requestForBodyHook.isNull
            THEN requestForBodyHook
            ELSE nextRequest.requestForBodyHook]

\* the record of a call of onRequestHead or onRequest after the user hook
\* returned: nextRequest is what the hook left, substituted the outcome of
\* applySecretsToRequest and out the request returned if that did not throw
Outcome(op, request, hook, nextRequest, hookStep, substituted, out) ==
    [op |-> op, request |-> request, userHook |-> hook.kind,
     hookArg |-> HookArg(request, hook),
     hookReturned |-> IF hook.kind = "updated" THEN hook.request ELSE NoRequest,
     hooked |-> nextRequest,
     outcome |-> IF substituted.threw THEN "threw" ELSE "returned",
     error |-> substituted.error,
     result |-> IF substituted.threw THEN NoRequest ELSE out,
     trace |-> hookStep \o substituted.steps]

\* the record of a call in which the user hook threw
HookThrew(op, request, hook) ==
    [op |-> op, request |-> request, userHook |-> hook.kind,
     hookArg |-> HookArg(request, hook),
     hookReturned |-> NoRequest, hooked |-> NoRequest, outcome |-> "hookThrew",
     error |-> NoError, result |-> NoRequest,
     trace |-> <<IF op = "onRequest" THEN "options.onRequest" ELSE "options.onRequestHead">>]

\* hooks that forget their secrets once a call has failed
ClosureWithoutSecretsAfterFailure(created, outcome) ==
    IF outcome.outcome = "returned" THEN created
    ELSE [created EXCEPT !.secretEntries = <<>>]

\* what createHttpHooks' closure holds after a call of onRequestHead or
\* onRequest: env, secretEntries, blockInternalRanges and allowedHosts are
\* `const` and no handler assigns to them or changes an entry, whatever the
\* outcome of the call
ClosureAfter(created, outcome) == created

\* httpHooks.onRequestHead(request), the user hook behaving as `hook` says:
\* absent, returning nothing ("undefined"), returning hook.request ("updated")
\* or throwing ("threw")
onRequestHead(request, hook, opts, created) ==
    IF hook.kind = "threw" THEN HookThrew("onRequestHead", request, hook)
    ELSE With(RunUserHook(request, hook), LAMBDA nextRequest :
         With(applySecretsToRequest(
                  nextRequest, created.secretEntries,
                  Coalesce(opts.replaceSecretsInQuery, FALSE)), LAMBDA substituted :
             Outcome("onRequestHead", request, hook, nextRequest,
                     IF hook.kind = "absent" THEN <<>> ELSE <<"options.onRequestHead">>,
                     substituted,
                     IF substituted.threw THEN NoRequest
                     ELSE HeadOut(nextRequest, substituted.value,
                                  RequestForBodyHook(nextRequest, opts)))))

\* a handler that injects the secrets before it runs the buffered hook
OnRequestSecretsFirst(request, hook, opts, created) ==
    With(applySecretsToRequest(
             request, created.secretEntries,
             Coalesce(opts.replaceSecretsInQuery, FALSE)), LAMBDA substituted :
        IF substituted.threw
        THEN Outcome("onRequest", request, hook, request, <<>>, substituted, NoRequest)
        ELSE IF hook.kind = "threw"
        THEN [HookThrew("onRequest", request, hook) EXCEPT
                 !.hookArg = substituted.value,
                 !.trace = substituted.steps \o <<"options.onRequest">>]
        ELSE [Outcome("onRequest", request, hook, substituted.value, <<>>, substituted,
                      IF hook.kind = "updated" THEN hook.request ELSE substituted.value)
                 EXCEPT !.hookArg = substituted.value,
                        !.trace = substituted.steps \o <<"options.onRequest">>])

\* httpHooks.onRequest(request); installed only when options.onRequest is given
onRequest(request, hook, opts, created) ==
    IF hook.kind = "threw" THEN HookThrew("onRequest", request, hook)
    ELSE With(RunUserHook(request, hook), LAMBDA nextRequest :
         With(applySecretsToRequest(
                  nextRequest, created.secretEntries,
                  Coalesce(opts.replaceSecretsInQuery, FALSE)), LAMBDA substituted :
             Outcome("onRequest", request, hook, nextRequest, <<"options.onRequest">>,
                     substituted, substituted.value)))

\* ------------------------------------------------------------------------
\* Internal address ranges
\* ------------------------------------------------------------------------

IsHexDigit(c) == IsDigit(c) \/ (c >= 97 /\ c <= 102) \/ (c >= 65 /\ c <= 70)

\* the value of a run of decimal digits
RECURSIVE DecimalValue(_)
DecimalValue(s) ==
    IF s = <<>> THEN 0 ELSE (10 * DecimalValue(SubSeq(s, 1, Len(s) - 1))) + (s[Len(s)] - 48)

\* the value of a run of hexadecimal digits
RECURSIVE HexGroupValue(_)
HexGroupValue(s) ==
    IF s = <<>> THEN 0
    ELSE (16 * HexGroupValue(SubSeq(s, 1, Len(s) - 1))) + HexValue(s[Len(s)])

\* Number(part) for a part of a dotted address: a run of decimal digits is its
\* value and the empty string is 0; any other text is NaN, shown as -1
Number(part) ==
    IF \A i \in 1..Len(part) : IsDigit(part[i]) THEN DecimalValue(part) ELSE -1

\* Number.isInteger
IsInteger(n) == n >= 0

\* an octet of a dotted quad as net.isIP reads it: 0..255 in decimal, without
\* a leading zero
IsOctetText(part) ==
    /\ Len(part) >= 1
    /\ Len(part) <= 3
    /\ \A i \in 1..Len(part) : IsDigit(part[i])
    /\ (Len(part) > 1 => part[1] # 48)
    /\ DecimalValue(part) <= 255

IsIPv4Text(ip) ==
    LET parts == Split(ip, <<46>>)
    IN Len(parts) = 4 /\ \A i \in 1..4 : IsOctetText(parts[i])

\* the 16-bit groups a list of text groups stands for; a dotted quad (allowed
\* as the last group when dottedLast) stands for two. <<-1>> if a group is
\* malformed
RECURSIVE GroupValues(_, _)
GroupValues(groups, dottedLast) ==
    IF groups = <<>> THEN <<>>
    ELSE With(GroupValues(Tail(groups), dottedLast), LAMBDA rest :
         With(IF /\ Len(Head(groups)) >= 1
                 /\ Len(Head(groups)) <= 4
                 /\ \A i \in 1..Len(Head(groups)) : IsHexDigit(Head(groups)[i])
              THEN <<HexGroupValue(Head(groups))>>
              ELSE IF dottedLast /\ Len(groups) = 1 /\ IsIPv4Text(Head(groups))
              THEN With(Split(Head(groups), <<46>>), LAMBDA octets :
                       <<(256 * DecimalValue(octets[1])) + DecimalValue(octets[2]),
                         (256 * DecimalValue(octets[3])) + DecimalValue(octets[4])>>)
              ELSE <<-1>>, LAMBDA here :
             IF here = <<-1>> \/ rest = <<-1>> THEN <<-1>> ELSE here \o rest))

\* the text groups of one side of "::"
GroupsOf(side) == IF side = <<>> THEN <<>> ELSE Split(side, <<58>>)

\* parseIPv6Hextets: the eight 16-bit groups of an IPv6 address in text form
\* (groups of one to four hexadecimal digits, at most one "::" standing for a
\* run of zero groups, perhaps a dotted quad as the last 32 bits); <<>> (null)
\* if ip is no such text
parseIPv6Hextets(ip) ==
    With(Split(ip, <<58, 58>>), LAMBDA sides :
    With(GroupValues(GroupsOf(sides[1]), Len(sides) = 1), LAMBDA left :
    With(IF Len(sides) = 2 THEN GroupValues(GroupsOf(sides[2]), TRUE) ELSE <<>>,
         LAMBDA right :
        IF Len(sides) > 2 \/ left = <<-1>> \/ right = <<-1>> THEN <<>>
        ELSE IF Len(sides) = 1
        THEN (IF Len(left) = 8 THEN left ELSE <<>>)
        ELSE IF Len(left) + Len(right) > 7 THEN <<>>
        ELSE left \o [i \in 1..(8 - (Len(left) + Len(right))) |-> 0] \o right)))

\* net.isIP: 4 for a dotted quad, 6 for an IPv6 address, 0 for anything else
NetIsIP(ip) ==
    IF IsIPv4Text(ip) THEN 4
    ELSE IF parseIPv6Hextets(ip) # <<>> THEN 6
    ELSE 0

\* a number in decimal
RECURSIVE DecimalText(_)
DecimalText(n) ==
    IF n < 10 THEN <<48 + n>> ELSE DecimalText(n \div 10) \o <<48 + (n % 10)>>

\* extractIPv4Mapped: the dotted quad of an IPv4-mapped address ::ffff:a.b.c.d;
\* <<>> (null) for any other address
extractIPv4Mapped(hextets) ==
    IF (\A i \in 1..5 : hextets[i] = 0) /\ hextets[6] = 65535
    THEN Join(<<DecimalText(hextets[7] \div 256), DecimalText(hextets[7] % 256),
                DecimalText(hextets[8] \div 256), DecimalText(hextets[8] % 256)>>, <<46>>)
    ELSE <<>>

\* a & b
RECURSIVE BitAnd(_, _)
BitAnd(a, b) ==
    IF a = 0 \/ b = 0 THEN 0
    ELSE ((a % 2) * (b % 2)) + (2 * BitAnd(a \div 2, b \div 2))

\* a range check without 100.64.0.0/10
IsPrivateIPv4Narrow(ip) ==
    With([i \in 1..Len(Split(ip, <<46>>)) |-> Number(Split(ip, <<46>>)[i])], LAMBDA octets :
        IF Len(octets) # 4 \/ \E i \in 1..Len(octets) : ~IsInteger(octets[i])
        THEN FALSE
        ELSE \/ octets[1] \in {0, 10, 127, 255}
             \/ (octets[1] = 169 /\ octets[2] = 254)
             \/ (octets[1] = 172 /\ octets[2] >= 16 /\ octets[2] <= 31)
             \/ (octets[1] = 192 /\ octets[2] = 168))

isPrivateIPv4(ip) ==
    LET parts  == Split(ip, <<46>>)
        octets == [i \in 1..Len(parts) |-> Number(parts[i])]
        a == octets[1]
        b == octets[2]
    IN IF Len(octets) # 4 \/ \E i \in 1..Len(octets) : ~IsInteger(octets[i])
       THEN FALSE
       ELSE \/ a = 0
            \/ a = 10
            \/ a = 127
            \/ (a = 169 /\ b = 254)
            \/ (a = 172 /\ b >= 16 /\ b <= 31)
            \/ (a = 192 /\ b = 168)
            \/ (a = 100 /\ b >= 64 /\ b <= 127)
            \/ a = 255

isPrivateIPv6(ip) ==
    With(parseIPv6Hextets(ip), LAMBDA hextets :
        IF hextets = <<>> THEN FALSE
        ELSE \/ \A i \in 1..8 : hextets[i] = 0
             \/ ((\A i \in 1..7 : hextets[i] = 0) /\ hextets[8] = 1)
             \/ BitAnd(hextets[1], 65024) = 64512
             \/ BitAnd(hextets[1], 65472) = 65152
             \/ With(extractIPv4Mapped(hextets), LAMBDA mapped :
                    mapped # <<>> /\ isPrivateIPv4(mapped)))

isInternalAddress(ip) ==
    With(NetIsIP(ip), LAMBDA family :
        IF family = 4 THEN isPrivateIPv4(ip)
        ELSE IF family = 6 THEN isPrivateIPv6(ip)
        ELSE FALSE)

\* ------------------------------------------------------------------------
\* httpHooks.isRequestAllowed and httpHooks.isIpAllowed
\* ------------------------------------------------------------------------

\* httpHooks.isRequestAllowed(request); answer is what options.isRequestAllowed
\* returns when it is given
isRequestAllowed(request, answer, opts) ==
    IF opts.has.isRequestAllowed
    THEN [request |-> request, result |-> answer,
          trace |-> <<"options.isRequestAllowed">>]
    ELSE [request |-> request, result |-> TRUE, trace |-> <<>>]

\* an isIpAllowed that lets the caller's callback decide when there is one
IsIpAllowedByCallback(info, answer, opts, created) ==
    IF opts.has.isIpAllowed
    THEN [result |-> answer, deniedBy |-> IF answer THEN "none" ELSE "options.isIpAllowed",
          trace |-> <<"options.isIpAllowed">>]
    ELSE [result |-> ~(created.blockInternalRanges /\ isInternalAddress(info.ip)),
          deniedBy |-> IF created.blockInternalRanges /\ isInternalAddress(info.ip)
                       THEN "blockInternalRanges" ELSE "none",
          trace |-> <<>>]

\* a handler that skips the range check for a host name on the allowed-host
\* list
IsIpAllowedTrustingHost(info, answer, opts, created) ==
    IF Len(created.allowedHosts) > 0 /\ matchesAnyHost(info.hostname, created.allowedHosts)
    THEN [result |-> TRUE, deniedBy |-> "none", trace |-> <<"matchesAnyHost">>]
    ELSE IF created.blockInternalRanges /\ isInternalAddress(info.ip)
    THEN [result |-> FALSE, deniedBy |-> "blockInternalRanges",
          trace |-> <<"isInternalAddress">>]
    ELSE [result |-> Len(created.allowedHosts) = 0,
          deniedBy |-> IF Len(created.allowedHosts) = 0 THEN "none" ELSE "allowedHosts",
          trace |-> <<"isInternalAddress", "matchesAnyHost">>]

\* httpHooks.isIpAllowed(info); answer is what options.isIpAllowed returns when
\* it is given. trace lists the checks made in order, deniedBy the check that
\* returned false
isIpAllowed(info, answer, opts, created) ==
    LET rangeTrace == IF created.blockInternalRanges THEN <<"isInternalAddress">> ELSE <<>>
        hostTrace  == IF Len(created.allowedHosts) > 0 THEN <<"matchesAnyHost">> ELSE <<>>
    IN IF created.blockInternalRanges /\ isInternalAddress(info.ip)
       THEN [result |-> FALSE, deniedBy |-> "blockInternalRanges", trace |-> rangeTrace]
       ELSE IF /\ Len(created.allowedHosts) > 0
               /\ ~matchesAnyHost(info.hostname, created.allowedHosts)
       THEN [result |-> FALSE, deniedBy |-> "allowedHosts",
             trace |-> rangeTrace \o hostTrace]
       ELSE IF opts.has.isIpAllowed
       THEN [result |-> answer, deniedBy |-> IF answer THEN "none" ELSE "options.isIpAllowed",
             trace |-> rangeTrace \o hostTrace \o <<"options.isIpAllowed">>]
       ELSE [result |-> TRUE, deniedBy |-> "none", trace |-> rangeTrace \o hostTrace]

\* ------------------------------------------------------------------------
\* Inputs: configurations, random draws and requests
\* ------------------------------------------------------------------------

MaxSecrets == 2
MaxPieces == 2

HostApi == <<97, 112, 105, 46, 101, 120, 97, 109, 112, 108, 101, 46, 99, 111, 109>>  \* "api.example.com"
HostEvil == <<101, 118, 105, 108, 46, 116, 101, 115, 116>>  \* "evil.test"
PatWild == <<32, 42, 46, 69, 120, 97, 109, 112, 108, 101, 46, 99, 111, 109, 32>>  \* " *.Example.com "
ValS3cr3t == <<115, 51, 99, 114, 51, 116>>  \* "s3cr3t"
ValCr3 == <<99, 114, 51>>  \* "cr3"
ValK9 == <<107, 57>>  \* "k9"
StrBearer == <<66, 101, 97, 114, 101, 114, 32>>  \* "Bearer "
StrBasicSp == <<66, 97, 115, 105, 99, 32>>  \* "Basic "
StrHttps == <<104, 116, 116, 112, 115, 58, 47, 47>>  \* "https://"
StrPath == <<47, 118, 49>>  \* "/v1"
StrPathQ == <<47, 118, 49, 63, 107, 61>>  \* "/v1?k="
StrX == <<120>>  \* "x"
StrPathN == <<47, 118, 49, 63>>  \* "/v1?"
StrEqX == <<61, 120>>  \* "=x"
HdrAuthorization == <<65, 117, 116, 104, 111, 114, 105, 122, 97, 116, 105, 111, 110>>  \* "Authorization"
HdrProxy == <<112, 114, 111, 120, 121, 45, 97, 117, 116, 104, 111, 114, 105, 122, 97, 116, 105, 111, 110>>  \* "proxy-authorization"
HdrXLeak == <<88, 45, 76, 101, 97, 107>>  \* "X-Leak"

SecretNames == <<"TOKEN", "OTHER", "THIRD">>

\* the definitions a secret of each name may be given
SecretChoices(name) ==
    CASE name = "TOKEN" ->
            {[name |-> name, value |-> ValS3cr3t, hosts |-> <<HostApi>>],
             [name |-> name, value |-> <<>>, hosts |-> <<HostApi>>]}
      [] name = "OTHER" ->
            {[name |-> name, value |-> ValCr3, hosts |-> <<HostEvil>>],
             [name |-> name, value |-> ValK9, hosts |-> <<PatWild>>]}
      [] OTHER ->
            {[name |-> name, value |-> ValK9, hosts |-> <<>>]}

SecretDefs ==
    UNION {SecretChoices(SecretNames[i]) : i \in 1..Min(MaxSecrets, Len(SecretNames))}

\* options.secrets, in the order of Object.entries: at most MaxSecrets
\* definitions under distinct names
SecretLists ==
    UNION {{s \in [1..k -> SecretDefs] :
                \A i, j \in 1..k : i # j => s[i].name # s[j].name} : k \in 0..MaxSecrets}

NoCallbacks ==
    [isRequestAllowed |-> FALSE, isIpAllowed |-> FALSE, onRequestHead |-> FALSE,
     onRequest |-> FALSE, onResponse |-> FALSE]

HttpOptions ==
    {[allowedHosts |-> <<>>, secrets |-> s, replaceSecretsInQuery |-> q,
      blockInternalRanges |-> "undefined",
      has |-> [NoCallbacks EXCEPT !.onRequestHead = h1, !.onRequest = h2]] :
        s \in SecretLists, q \in {"undefined", "true"}, h1 \in BOOLEAN, h2 \in BOOLEAN}

\* what crypto.randomBytes(24) may return: an ideal random source, so no draw
\* repeats an earlier one
RandomSample(k) == [i \in 1..NumRandomBytes |-> ((i * 37 * k) + (11 * k)) % 256]
RandomPool == {RandomSample(k) : k \in 1..(MaxSecrets + 1)}
RandomStreams ==
    {d \in [1..MaxSecrets -> RandomPool] : \A i, j \in 1..MaxSecrets : i # j => d[i] # d[j]}
OneRandomStream == [k \in 1..MaxSecrets |-> RandomSample(k)]

\* the draws randomBytes has not handed out yet
Undrawn(r) == SubSeq(r.draws, r.calls + 1, Len(r.draws))

\* one placeholder cut in two with another text in the middle
Embed(outer, inner) ==
    SubSeq(outer, 1, Len(outer) \div 2) \o inner
    \o SubSeq(outer, (Len(outer) \div 2) + 1, Len(outer))

\* the texts a guest (which knows the placeholders) or a redirect (which may
\* carry values) can put into a request
Pieces(entries) ==
    {entries[i].placeholder : i \in 1..Len(entries)}
    \cup {entries[i].value : i \in 1..Len(entries)}

Embeds(entries) ==
    {Embed(entries[i].placeholder, entries[j].placeholder) :
         i \in 1..Len(entries), j \in 1..Len(entries)}

ShortTexts(entries) == {StrX} \cup Pieces(entries) \cup Embeds(entries)

Texts(entries) ==
    ShortTexts(entries)
    \cup UNION {{Concat(t) : t \in [1..n -> Pieces(entries)]} : n \in 2..MaxPieces}

BasicOf(text) == StrBasicSp \o Base64Encode(Utf8Encode(text))

\* every character as %XX
PercentAll(text) ==
    [k \in 1..(3 * Len(text)) |->
        CASE k % 3 = 1 -> 37
          [] k % 3 = 2 -> UpperHexDigits[(text[(k + 2) \div 3] \div 16) + 1]
          [] OTHER -> UpperHexDigits[(text[k \div 3] % 16) + 1]]

Header(name, value) == [name |-> name, value |-> value]

HeaderLists(entries) ==
    {<<>>}
    \cup {<<Header(HdrAuthorization, v)>> :
              v \in Texts(entries)
                    \cup {StrBearer \o t : t \in Texts(entries)}
                    \cup {BasicOf(t) : t \in Texts(entries)}
                    \cup {StrBasicSp \o p \o Base64Encode(q) :
                              p \in Pieces(entries), q \in Pieces(entries)}}
    \cup {<<Header(HdrProxy, BasicOf(t))>> : t \in Pieces(entries)}
    \cup {<<Header(HdrXLeak, v)>> :
              v \in ShortTexts(entries) \cup {BasicOf(t) : t \in Pieces(entries)}}

UrlHosts == {HostApi, HostEvil}

Request(url, headers) ==
    [method |-> "GET", url |-> url, headers |-> headers, body |-> "null",
     requestForBodyHook |-> NullHead]

Requests(entries) ==
    {Request(StrHttps \o h \o StrPath, hs) : h \in UrlHosts, hs \in HeaderLists(entries)}
    \cup {Request(StrHttps \o h \o StrPathQ \o q, <<>>) :
              h \in UrlHosts,
              q \in {StrX} \cup Pieces(entries) \cup Embeds(entries)
                    \cup {PercentAll(entries[i].value) : i \in 1..Len(entries)}}
    \cup {Request(StrHttps \o h \o StrPathN \o p \o StrEqX, <<>>) :
              h \in UrlHosts, p \in Pieces(entries) \ {<<>>}}

\* a requestForBodyHook field a user hook sets itself
OwnControlField ==
    [isNull |-> FALSE, method |-> "POST", url |-> StrHttps \o HostApi \o StrPath,
     headers |-> <<>>, body |-> "null"]

\* what a user hook may do with a request: nothing, throw, or return it with
\* the URL pointed at another host, with the headers replaced or with a
\* control field of its own
Rewrites(request, entries) ==
    {[request EXCEPT !.url = StrHttps \o h \o StrPath] : h \in UrlHosts}
    \cup {[request EXCEPT !.headers = <<Header(HdrXLeak, v)>>] : v \in Pieces(entries)}
    \cup {[request EXCEPT !.requestForBodyHook = OwnControlField]}

\* the requests a user hook is tried on in every way; on the others it returns
\* nothing
HookSubject(request) ==
    Len(request.headers) = 0 \/ request.headers[1].name = HdrXLeak

UserHook(present, request, entries) ==
    IF ~present THEN {[kind |-> "absent", request |-> request]}
    ELSE {[kind |-> "undefined", request |-> request]}
         \cup (IF HookSubject(request)
               THEN {[kind |-> "threw", request |-> request]}
                    \cup {[kind |-> "updated", request |-> r] :
                              r \in Rewrites(request, entries)}
               ELSE {})

\* ------------------------------------------------------------------------
\* The state machine
\* ------------------------------------------------------------------------

Init ==
    /\ options \in HttpOptions
    /\ rng = [draws |-> OneRandomStream, calls |-> 0]
    /\ hooks = NotCreated
    /\ call = Idle
    /\ NoVfs
    /\ NoNet

CreateHttpHooks ==
    /\ ~hooks.created
    /\ hooks' = createHttpHooks(options, Undrawn(rng))
    /\ rng' = [rng EXCEPT !.calls = @ + Len(options.secrets)]
    /\ UNCHANGED <<options, call>>
    /\ UNCHANGED <<vfsVars, netVars>>

OnRequestHead ==
    /\ hooks.created
    /\ call.op = "none"
    /\ \E request \in Requests(hooks.secretEntries) :
       \E hook \in UserHook(options.has.onRequestHead, request, hooks.secretEntries) :
           call' = onRequestHead(request, hook, options, hooks)
    /\ hooks' = ClosureAfter(hooks, call')
    /\ UNCHANGED <<options, rng>>
    /\ UNCHANGED <<vfsVars, netVars>>

OnRequest ==
    /\ hooks.created
    /\ hooks.hasOnRequest
    /\ call.op = "none"
    /\ \E request \in Requests(hooks.secretEntries) :
       \E hook \in UserHook(TRUE, request, hooks.secretEntries) :
           call' = onRequest(request, hook, options, hooks)
    /\ hooks' = ClosureAfter(hooks, call')
    /\ UNCHANGED <<options, rng>>
    /\ UNCHANGED <<vfsVars, netVars>>

\* the caller takes the outcome of the call: the next call starts afresh
Respond ==
    /\ call.op # "none"
    /\ call' = Idle
    /\ UNCHANGED <<options, rng, hooks>>
    /\ UNCHANGED <<vfsVars, netVars>>

Next == CreateHttpHooks \/ OnRequestHead \/ OnRequest \/ Respond

Spec == Init /\ [][Next]_vars

\* ------------------------------------------------------------------------
\* Admission: createHttpHooks, then isRequestAllowed and isIpAllowed calls
\* ------------------------------------------------------------------------

HostUpper == <<87, 87, 87, 46, 69, 120, 97, 109, 112, 108, 101, 46, 67, 79, 77>>  \* "WWW.Example.COM"
HostExample == <<101, 120, 97, 109, 112, 108, 101, 46, 99, 111, 109>>  \* "example.com"
PatBlank == <<32, 32>>  \* "  "
TextLocalhost == <<108, 111, 99, 97, 108, 104, 111, 115, 116>>  \* "localhost"
TextLeadingZero == <<48, 49, 48, 46, 48, 46, 48, 46, 49>>  \* "010.0.0.1"
TextThreeParts == <<49, 48, 46, 48, 46, 48>>  \* "10.0.0"
MappedPrefix == <<58, 58, 102, 102, 102, 102, 58>>  \* "::ffff:"
MappedFullPrefix == <<48, 58, 48, 58, 48, 58, 48, 58, 48, 58, 102, 102, 102, 102, 58>>  \* "0:0:0:0:0:ffff:"
NotMappedPrefix == <<58, 58, 102, 102, 102, 101, 58>>  \* "::fffe:"
CompatPrefix == <<58, 58>>  \* "::"

\* a number in lower-case hexadecimal
RECURSIVE HexText(_)
HexText(n) ==
    IF n < 16 THEN <<HexDigits[n + 1]>>
    ELSE HexText(n \div 16) \o <<HexDigits[(n % 16) + 1]>>

\* the dotted quad of four octets
IPv4Text(o) == Join([i \in 1..4 |-> DecimalText(o[i])], <<46>>)

\* the groups lo..hi of an IPv6 address, colon-separated
GroupsText(h, lo, hi) ==
    IF lo > hi THEN <<>> ELSE Join([i \in 1..((hi - lo) + 1) |-> HexText(h[(lo + i) - 1])], <<58>>)

\* the eight groups written out
FullText(h) == GroupsText(h, 1, 8)

\* the longest run of zero groups (the first of them, if several) written "::"
CompressedText(h) ==
    LET runs == {r \in (1..8) \X (1..8) :
                     r[1] <= r[2] /\ \A i \in r[1]..r[2] : h[i] = 0}
        best == CHOOSE r \in runs :
                    \A q \in runs :
                        \/ (r[2] - r[1]) > (q[2] - q[1])
                        \/ ((r[2] - r[1]) = (q[2] - q[1]) /\ r[1] <= q[1])
    IN IF runs = {} THEN FullText(h)
       ELSE GroupsText(h, 1, best[1] - 1) \o <<58, 58>> \o GroupsText(h, best[2] + 1, 8)

\* the IPv4-mapped IPv6 address of four octets
MappedGroups(o) == <<0, 0, 0, 0, 0, 65535, (256 * o[1]) + o[2], (256 * o[3]) + o[4]>>

\* the IPv4 addresses tried: around every edge of the ranges
EdgeFirsts == {100, 169, 172, 192}
PlainFirsts == {0, 1, 9, 10, 11, 126, 127, 128, 254, 255}
Seconds == {0, 15, 16, 31, 32, 63, 64, 127, 128, 167, 168, 169, 253, 254, 255}

IPv4Samples ==
    {<<a, b, 0, 1>> : a \in EdgeFirsts, b \in Seconds}
    \cup {<<a, t[1], t[2], t[3]>> : a \in PlainFirsts, t \in {<<0, 0, 0>>, <<255, 255, 255>>}}

\* the IPv6 addresses tried: x::y around every edge of the ranges
IPv6Firsts == {0, 1, 8193, 64511, 64512, 65023, 65024, 65151, 65152, 65215, 65216, 65535}
IPv6Lasts == {0, 1, 2}

IPv6Samples == {<<x, 0, 0, 0, 0, 0, 0, y>> : x \in IPv6Firsts, y \in IPv6Lasts}

\* an address as text (ip) and what the text denotes (address): the family and
\* the octets or 16-bit groups; family 0 is a text that is no address
Addresses ==
    {[ip |-> IPv4Text(o), address |-> [family |-> 4, groups |-> o]] : o \in IPv4Samples}
    \cup {[ip |-> FullText(h), address |-> [family |-> 6, groups |-> h]] : h \in IPv6Samples}
    \cup {[ip |-> CompressedText(h), address |-> [family |-> 6, groups |-> h]] :
              h \in IPv6Samples}
    \cup {[ip |-> MappedPrefix \o IPv4Text(o),
           address |-> [family |-> 6, groups |-> MappedGroups(o)]] : o \in IPv4Samples}
    \cup {[ip |-> MappedFullPrefix \o IPv4Text(o),
           address |-> [family |-> 6, groups |-> MappedGroups(o)]] : o \in IPv4Samples}
    \cup {[ip |-> CompressedText(MappedGroups(o)),
           address |-> [family |-> 6, groups |-> MappedGroups(o)]] : o \in IPv4Samples}
    \cup {[ip |-> NotMappedPrefix \o IPv4Text(o),
           address |-> [family |-> 6,
                        groups |-> [MappedGroups(o) EXCEPT ![6] = 65534]]] :
              o \in {<<10, 0, 0, 1>>, <<127, 0, 0, 1>>}}
    \cup {[ip |-> CompatPrefix \o IPv4Text(o),
           address |-> [family |-> 6,
                        groups |-> [MappedGroups(o) EXCEPT ![6] = 0]]] :
              o \in {<<10, 0, 0, 1>>, <<192, 168, 0, 1>>}}
    \cup {[ip |-> t, address |-> [family |-> 0, groups |-> <<>>]] :
              t \in {<<>>, TextLocalhost, TextLeadingZero, TextThreeParts}}

AdmissionHosts == {HostApi, HostEvil, HostUpper, HostExample}

\* the addresses tried with every host name
PublicText == IPv4Text(<<1, 0, 0, 0>>)
LoopbackText == IPv4Text(<<127, 0, 0, 0>>)

\* the {hostname, ip} pairs isIpAllowed is called with
Infos ==
    {[hostname |-> HostApi, ip |-> a.ip, address |-> a.address] : a \in Addresses}
    \cup {[hostname |-> h, ip |-> a.ip, address |-> a.address] :
              h \in AdmissionHosts, a \in {b \in Addresses : b.ip \in {PublicText, LoopbackText}}}

AdmissionOptions ==
    {[allowedHosts |-> a, secrets |-> s, replaceSecretsInQuery |-> "undefined",
      blockInternalRanges |-> b,
      has |-> [NoCallbacks EXCEPT !.isIpAllowed = c, !.isRequestAllowed = c]] :
        a \in {<<>>, <<HostApi>>, <<PatBlank>>, <<PatWild, HostApi>>},
        s \in {<<>>,
               <<[name |-> "TOKEN", value |-> ValS3cr3t, hosts |-> <<HostApi>>]>>,
               <<[name |-> "OTHER", value |-> ValK9, hosts |-> <<PatWild, PatBlank>>]>>},
        b \in {"undefined", "true", "false"},
        c \in BOOLEAN}

\* what a caller-supplied callback may answer
Answers(present) == IF present THEN {"true", "false"} ELSE {"absent"}

InitAdmission ==
    /\ options \in AdmissionOptions
    /\ rng = [draws |-> OneRandomStream, calls |-> 0]
    /\ hooks = NotCreated
    /\ call = Idle
    /\ NoVfs
    /\ NoNet

IsRequestAllowed ==
    /\ hooks.created
    /\ call.op = "none"
    /\ \E h \in AdmissionHosts :
       \E answer \in Answers(options.has.isRequestAllowed) :
           call' = [op |-> "isRequestAllowed", callback |-> answer]
                   @@ isRequestAllowed(Request(StrHttps \o h \o StrPath, <<>>),
                                       answer = "true", options)
    /\ UNCHANGED <<options, rng, hooks>>
    /\ UNCHANGED <<vfsVars, netVars>>

IsIpAllowed ==
    /\ hooks.created
    /\ call.op = "none"
    /\ \E info \in Infos :
       \E answer \in Answers(options.has.isIpAllowed) :
           call' = [op |-> "isIpAllowed",
                    info |-> [hostname |-> info.hostname, ip |-> info.ip],
                    address |-> info.address, callback |-> answer]
                   @@ isIpAllowed(info, answer = "true", options, hooks)
    /\ UNCHANGED <<options, rng, hooks>>
    /\ UNCHANGED <<vfsVars, netVars>>

NextAdmission == CreateHttpHooks \/ IsRequestAllowed \/ IsIpAllowed \/ Respond

SpecAdmission == InitAdmission /\ [][NextAdmission]_vars

\* ------------------------------------------------------------------------
\* Rebinding: isIpAllowed called again and again as host names are resolved
\* anew for each connection
\* ------------------------------------------------------------------------

\* each host name with a public and a loopback address, "api.example.com" also
\* with the IPv4-mapped loopback address
RebindInfos ==
    {i \in Infos : i.ip \in {PublicText, LoopbackText, MappedPrefix \o LoopbackText}}

\* the host names that this call or a call before it allowed
AllowedSoFar ==
    IF call.op # "isIpAllowed" THEN {}
    ELSE call.allowedEarlier \cup (IF call.result THEN {call.info.hostname} ELSE {})

\* a call of isIpAllowed for a connection being opened; allowedEarlier records
\* the host names that the calls before it allowed
IsIpAllowedAtConnect ==
    /\ hooks.created
    /\ \E info \in RebindInfos :
       \E answer \in Answers(options.has.isIpAllowed) :
           call' = [op |-> "isIpAllowed",
                    info |-> [hostname |-> info.hostname, ip |-> info.ip],
                    address |-> info.address, callback |-> answer,
                    allowedEarlier |-> AllowedSoFar]
                   @@ isIpAllowed(info, answer = "true", options, hooks)
    /\ UNCHANGED <<options, rng, hooks>>
    /\ UNCHANGED <<vfsVars, netVars>>

NextRebind == CreateHttpHooks \/ IsIpAllowedAtConnect

SpecRebind == InitAdmission /\ [][NextRebind]_vars

\* ------------------------------------------------------------------------
\* Keep-alive: requests handled one after the other by the same hooks
\* ------------------------------------------------------------------------

\* two secrets for different hosts
KeepAliveSecrets ==
    <<[name |-> "TOKEN", value |-> ValS3cr3t, hosts |-> <<HostApi>>],
      [name |-> "OTHER", value |-> ValCr3, hosts |-> <<HostEvil>>]>>

\* to either host: no header, the placeholder of the first secret, the value
\* of the second
KeepAliveRequests(entries) ==
    {Request(StrHttps \o h \o StrPath, hs) :
         h \in UrlHosts,
         hs \in {<<>>, <<Header(HdrXLeak, entries[1].placeholder)>>,
                 <<Header(HdrXLeak, entries[2].value)>>}}

InitKeepAlive ==
    /\ options \in {o \in HttpOptions : o.secrets = KeepAliveSecrets}
    /\ rng = [draws |-> OneRandomStream, calls |-> 0]
    /\ hooks = NotCreated
    /\ call = Idle
    /\ NoVfs
    /\ NoNet

\* a call before this one failed: it threw HttpRequestBlockedError or its user
\* hook threw
FailedSoFar ==
    /\ call.op # "none"
    /\ (call.failedEarlier \/ call.outcome # "returned")

\* onRequestHead for the next request of the connection
OnNextRequestHead ==
    /\ hooks.created
    /\ \E request \in KeepAliveRequests(hooks.secretEntries) :
       \E hook \in UserHook(options.has.onRequestHead, request, hooks.secretEntries) :
           call' = [failedEarlier |-> FailedSoFar]
                   @@ onRequestHead(request, hook, options, hooks)
    /\ hooks' = ClosureAfter(hooks, call')
    /\ UNCHANGED <<options, rng>>
    /\ UNCHANGED <<vfsVars, netVars>>

\* onRequest for the next request of the connection
OnNextRequest ==
    /\ hooks.created
    /\ hooks.hasOnRequest
    /\ \E request \in KeepAliveRequests(hooks.secretEntries) :
       \E hook \in UserHook(TRUE, request, hooks.secretEntries) :
           call' = [failedEarlier |-> FailedSoFar]
                   @@ onRequest(request, hook, options, hooks)
    /\ hooks' = ClosureAfter(hooks, call')
    /\ UNCHANGED <<options, rng>>
    /\ UNCHANGED <<vfsVars, netVars>>

NextKeepAlive == CreateHttpHooks \/ OnNextRequestHead \/ OnNextRequest

SpecKeepAlive == InitKeepAlive /\ [][NextKeepAlive]_vars

\* ------------------------------------------------------------------------
\* createHttpHooks under every stream of random draws
\* ------------------------------------------------------------------------

InitCreate ==
    /\ options \in HttpOptions
    /\ rng \in {[draws |-> d, calls |-> 0] : d \in RandomStreams}
    /\ hooks = NotCreated
    /\ call = Idle
    /\ NoVfs
    /\ NoNet

NextCreate == CreateHttpHooks

SpecCreate == InitCreate /\ [][NextCreate]_vars

\* ------------------------------------------------------------------------
\* matchHostname on every short host name and pattern
\* ------------------------------------------------------------------------

MaxHostLen == 3
MaxPatternLen == 3

HostLong == <<97, 112, 105, 46, 101, 120, 97, 109, 112, 108, 101, 46, 99, 111, 109, 46, 101, 118, 105, 108, 46, 116, 101, 115, 116>>  \* "api.example.com.evil.test"
HostX == <<120, 97, 112, 105, 46, 101, 120, 97, 109, 112, 108, 101, 46, 99, 111, 109>>  \* "xapi.example.com"
HostNoDot == <<97, 112, 105, 88, 101, 120, 97, 109, 112, 108, 101, 46, 99, 111, 109>>  \* "apiXexample.com"
PatStarExample == <<42, 46, 101, 120, 97, 109, 112, 108, 101, 46, 99, 111, 109>>  \* "*.example.com"

\* "a", "A" and "."
HostChars == {97, 65, 46}
\* "a", "A", "." and "*"
PatternChars == {97, 65, 46, 42}

StringsOver(chars, maxLen) == UNION {[1..n -> chars] : n \in 0..maxLen}

MatchHosts ==
    StringsOver(HostChars, MaxHostLen)
    \cup {HostApi, HostUpper, HostExample, HostLong, HostX, HostNoDot}

MatchPatterns ==
    StringsOver(PatternChars, MaxPatternLen) \cup {HostApi, PatStarExample}

InitMatch ==
    /\ options \in {o \in HttpOptions : o.secrets = <<>> /\ ~o.has.onRequest /\ ~o.has.onRequestHead
                                        /\ o.replaceSecretsInQuery = "undefined"}
    /\ rng = [draws |-> OneRandomStream, calls |-> 0]
    /\ hooks = NotCreated
    /\ call = Idle
    /\ NoVfs
    /\ NoNet

MatchHostname ==
    /\ call.op = "none"
    /\ \E h \in MatchHosts, p \in MatchPatterns :
           call' = [op |-> "matchHostname", hostname |-> h, pattern |-> p,
                    result |-> matchHostname(h, p)]
    /\ UNCHANGED <<options, rng, hooks>>
    /\ UNCHANGED <<vfsVars, netVars>>

NextMatch == MatchHostname \/ Respond

SpecMatch == InitMatch /\ [][NextMatch]_vars

\* ------------------------------------------------------------------------
\* InMemoryFsBackend and InMemoryFileHandle (src/host/src/vfs/in-memory.ts)
\*
\* backend.entries holds every entry object ever made, the root first: an
\* entry is referred to by its index, which stands for the object's identity;
\* children is the Map of a directory in insertion order; the time stamps
\* are left out. Paths are strings, flags are "r", "r+", "w", "w+", "a", "a+"
\* or another word.
\* ------------------------------------------------------------------------

\* createErrnoError(errno, syscall, path)
createErrnoError(code, syscall, path) ==
    [kind |-> "ErrnoError", code |-> code, syscall |-> syscall, path |-> path]

\* what a method of the backend leaves behind: the backend after the call and
\* what the call returned or threw
Done(b, outcome) ==
    [backend |-> b, threw |-> outcome.threw, value |-> outcome.value, error |-> outcome.error]

\* the statements after a call that may change the backend: skipped if it threw
AndThen(done, Rest(_, _)) == IF done.threw THEN done ELSE Rest(done.backend, done.value)

\* normalizeString of path.posix: "." and empty segments are dropped and ".."
\* removes the segment before it
RECURSIVE NormalizeSegments(_, _, _)
NormalizeSegments(segments, kept, allowAboveRoot) ==
    IF segments = <<>> THEN kept
    ELSE NormalizeSegments(Tail(segments),
             IF Head(segments) = <<>> \/ Head(segments) = <<46>> THEN kept
             ELSE IF Head(segments) = <<46, 46>>
                  THEN IF kept # <<>> /\ kept[Len(kept)] # <<46, 46>>
                       THEN SubSeq(kept, 1, Len(kept) - 1)
                       ELSE IF allowAboveRoot THEN Append(kept, Head(segments)) ELSE kept
             ELSE Append(kept, Head(segments)),
             allowAboveRoot)

\* path.posix.normalize: a trailing slash is kept
PosixNormalize(p) ==
    IF p = <<>> THEN <<46>>
    ELSE With(Join(NormalizeSegments(Split(p, <<47>>), <<>>, p[1] # 47), <<47>>),
              LAMBDA path :
                  IF path = <<>>
                  THEN IF p[1] = 47 THEN <<47>>
                       ELSE IF p[Len(p)] = 47 THEN <<46, 47>> ELSE <<46>>
                  ELSE (IF p[1] = 47 THEN <<47>> ELSE <<>>) \o path
                           \o (IF p[Len(p)] = 47 THEN <<47>> ELSE <<>>))

normalizePath(entryPath) ==
    With(PosixNormalize(entryPath),
         LAMBDA normalized : IF normalized[1] # 47 THEN <<47>> \o normalized ELSE normalized)

\* p without the slashes at its end, which dirname and basename pass over
RECURSIVE StripTrailing(_)
StripTrailing(p) ==
    IF Len(p) > 1 /\ p[Len(p)] = 47 THEN StripTrailing(SubSeq(p, 1, Len(p) - 1)) ELSE p

\* path.posix.dirname of a normalized path
Dirname(p) ==
    With(StripTrailing(p), LAMBDA q :
    With(LastOf(q, 47), LAMBDA i :
        IF i = 0 THEN <<46>> ELSE IF i = 1 THEN <<47>> ELSE SubSeq(q, 1, i - 1)))

\* path.posix.basename of a normalized path
Basename(p) ==
    With(StripTrailing(p), LAMBDA q : SubSeq(q, LastOf(q, 47) + 1, Len(q)))

\* new InMemoryFsBackend(): readonly = false, the root has ino 1, nextIno = 2
NewBackend ==
    [created |-> TRUE,
     readonly |-> FALSE,
     entries |-> <<[kind |-> "dir", ino |-> 1, children |-> <<>>, content |-> <<>>]>>,
     nextIno |-> 2,
     handles |-> <<>>]

\* Map.prototype.get on the children of a directory: 0 is undefined
MapGet(children, name) ==
    IF \E i \in 1..Len(children) : children[i].name = name
    THEN children[CHOOSE i \in 1..Len(children) : children[i].name = name].id
    ELSE 0

\* Map.prototype.set: a key that is present keeps its place
MapSet(children, name, id) ==
    IF MapGet(children, name) # 0
    THEN [i \in 1..Len(children) |->
             IF children[i].name = name THEN [name |-> name, id |-> id] ELSE children[i]]
    ELSE Append(children, [name |-> name, id |-> id])

\* Map.prototype.delete
MapDelete(children, name) == SelectSeq(children, LAMBDA c : c.name # name)

\* walk of entries(): the pairs <<path, entry>> below and including entry id
RECURSIVE Walk(_, _, _)
Walk(es, currentPath, id) ==
    {<<currentPath, id>>} \cup
    (IF es[id].kind = "dir"
     THEN UNION {Walk(es, (IF currentPath = <<47>> THEN <<47>> ELSE currentPath \o <<47>>)
                             \o es[id].children[i].name,
                          es[id].children[i].id) : i \in 1..Len(es[id].children)}
     ELSE {})

\* this.entries(): the map from each path reachable from the root to its entry
entries(b) == Walk(b.entries, <<47>>, 1)

\* this.entries().get(path): 0 is undefined
EntryAt(b, path) ==
    With(entries(b), LAMBDA map :
        IF \E e \in map : e[1] = path
        THEN (CHOOSE e \in map : e[1] = path)[2]
        ELSE 0)

getEntry(b, entryPath) ==
    With(EntryAt(b, entryPath), LAMBDA entry :
        IF entry = 0
        THEN Throw(createErrnoError("ENOENT", "stat", entryPath))
        ELSE Return(entry))

\* an allocator that hands out the smallest number no reachable entry holds
LowestFreeIno(b) ==
    With({b.entries[e[2]].ino : e \in entries(b)}, LAMBDA held :
        CHOOSE n \in 2..(Len(b.entries) + 2) :
            n \notin held /\ \A m \in 2..(n - 1) : m \in held)

\* the value of `this.nextIno++`
AllocateIno(b) == b.nextIno

\* a new entry of the given kind set as child `name` of parent: the entry
\* takes `this.nextIno++`
AddEntry(b, parent, name, kind) ==
    [b EXCEPT !.entries =
                  Append([@ EXCEPT ![parent].children = MapSet(@, name, Len(b.entries) + 1)],
                         [kind |-> kind, ino |-> AllocateIno(b), children |-> <<>>,
                          content |-> <<>>]),
              !.nextIno = @ + 1]

RECURSIVE mkdirSync(_, _, _)
RECURSIVE ensureParentDir(_, _, _)

ensureParentDir(b, entryPath, recursive) ==
    With(Dirname(entryPath), LAMBDA parentPath :
    With(EntryAt(b, parentPath), LAMBDA parentEntry :
        IF parentEntry # 0 /\ b.entries[parentEntry].kind = "dir"
        THEN Done(b, Return(parentEntry))
        ELSE IF ~recursive
        THEN Done(b, Throw(createErrnoError("ENOENT", "mkdir", parentPath)))
        ELSE IF parentPath = <<47>> THEN Done(b, Return(1))
        ELSE AndThen(mkdirSync(b, parentPath, TRUE),
                     LAMBDA made, nothing : Done(made, getEntry(made, parentPath)))))

mkdirSync(b, entryPath, recursive) ==
    With(normalizePath(entryPath), LAMBDA normalized :
    With(EntryAt(b, normalized), LAMBDA existing :
        IF normalized = <<47>> THEN Done(b, Return(<<>>))
        ELSE IF existing # 0
        THEN IF recursive /\ b.entries[existing].kind = "dir"
             THEN Done(b, Return(<<>>))
             ELSE Done(b, Throw(createErrnoError("EEXIST", "mkdir", entryPath)))
        ELSE AndThen(ensureParentDir(b, normalized, recursive),
                     LAMBDA made, parent :
                         Done(AddEntry(made, parent, Basename(normalized), "dir"),
                              Return(<<>>)))))

\* the parent, the name and the entry of entryPath
getParent(b, entryPath) ==
    With(EntryAt(b, Dirname(entryPath)), LAMBDA parent :
    With(Basename(entryPath), LAMBDA name :
        IF parent = 0 \/ b.entries[parent].kind # "dir"
        THEN Throw(createErrnoError("ENOENT", "stat", entryPath))
        ELSE IF MapGet(b.entries[parent].children, name) = 0
        THEN Throw(createErrnoError("ENOENT", "stat", entryPath))
        ELSE Return([parent |-> parent, name |-> name,
                     entry |-> MapGet(b.entries[parent].children, name)])))

\* parent.children.delete(name)
DeleteChild(b, parent, name) ==
    [b EXCEPT !.entries[parent].children = MapDelete(@, name)]

rmdirSync(b, entryPath) ==
    With(normalizePath(entryPath), LAMBDA normalized :
        IF normalized = <<47>>
        THEN Done(b, Throw(createErrnoError("EINVAL", "rmdir", entryPath)))
        ELSE AndThen(Done(b, getParent(b, normalized)), LAMBDA same, found :
            IF b.entries[found.entry].kind # "dir"
            THEN Done(b, Throw(createErrnoError("ENOTDIR", "rmdir", entryPath)))
            ELSE IF Len(b.entries[found.entry].children) > 0
            THEN Done(b, Throw(createErrnoError("ENOTEMPTY", "rmdir", entryPath)))
            ELSE Done(DeleteChild(b, found.parent, found.name), Return(<<>>))))

\* an unlink that removes the entry before it looks at its kind
UnlinkBeforeTest(b, entryPath) ==
    AndThen(Done(b, getParent(b, normalizePath(entryPath))), LAMBDA same, found :
        IF b.entries[found.entry].kind = "dir"
        THEN Done(DeleteChild(b, found.parent, found.name),
                  Throw(createErrnoError("EISDIR", "unlink", entryPath)))
        ELSE Done(DeleteChild(b, found.parent, found.name), Return(<<>>)))

unlinkSync(b, entryPath) ==
    AndThen(Done(b, getParent(b, normalizePath(entryPath))), LAMBDA same, found :
        IF b.entries[found.entry].kind = "dir"
        THEN Done(b, Throw(createErrnoError("EISDIR", "unlink", entryPath)))
        ELSE Done(DeleteChild(b, found.parent, found.name), Return(<<>>)))

\* a rename that leaves the entry under its old name as well
RenameKeepingSource(b, oldPath, newPath) ==
    With(normalizePath(oldPath), LAMBDA source :
    With(normalizePath(newPath), LAMBDA target :
        IF source = <<47>> \/ target = <<47>>
        THEN Done(b, Throw(createErrnoError("EINVAL", "rename", oldPath)))
        ELSE AndThen(Done(b, getParent(b, source)), LAMBDA same, sourceParentInfo :
             AndThen(ensureParentDir(b, target, FALSE), LAMBDA unchanged, targetParent :
             With(Basename(target), LAMBDA targetName :
                 IF MapGet(b.entries[targetParent].children, targetName) # 0
                 THEN Done(b, Throw(createErrnoError("EEXIST", "rename", newPath)))
                 ELSE Done([b EXCEPT !.entries[targetParent].children =
                                         MapSet(@, targetName, sourceParentInfo.entry)],
                           Return(<<>>)))))))

renameSync(b, oldPath, newPath) ==
    With(normalizePath(oldPath), LAMBDA source :
    With(normalizePath(newPath), LAMBDA target :
        IF source = <<47>> \/ target = <<47>>
        THEN Done(b, Throw(createErrnoError("EINVAL", "rename", oldPath)))
        ELSE AndThen(Done(b, getParent(b, source)), LAMBDA same, sourceParentInfo :
             AndThen(ensureParentDir(b, target, FALSE), LAMBDA unchanged, targetParent :
             With(Basename(target), LAMBDA targetName :
                 IF MapGet(b.entries[targetParent].children, targetName) # 0
                 THEN Done(b, Throw(createErrnoError("EEXIST", "rename", newPath)))
                 ELSE Done([b EXCEPT !.entries =
                                [[@ EXCEPT ![sourceParentInfo.parent].children =
                                               MapDelete(@, sourceParentInfo.name)]
                                    EXCEPT ![targetParent].children =
                                               MapSet(@, targetName, sourceParentInfo.entry)]],
                           Return(<<>>)))))))

\* Buffer.alloc(n): n zero bytes
Zeros(n) == [i \in 1..n |-> 0]

\* content cut or zero-filled to length
Resized(content, length) ==
    IF length < Len(content) THEN SubSeq(content, 1, length)
    ELSE content \o Zeros(length - Len(content))

truncateSync(b, entryPath, length) ==
    AndThen(Done(b, getEntry(b, normalizePath(entryPath))), LAMBDA same, entry :
        IF b.entries[entry].kind # "file"
        THEN Done(b, Throw(createErrnoError("EISDIR", "truncate", entryPath)))
        ELSE Done([b EXCEPT !.entries[entry].content = Resized(@, length)], Return(<<>>)))

\* createFileStats / createDirStats: the kind and the size
StatsOf(entry) ==
    [kind |-> entry.kind,
     size |-> IF entry.kind = "dir" THEN Len(entry.children) ELSE Len(entry.content)]

statSync(b, entryPath) ==
    AndThen(Done(b, getEntry(b, normalizePath(entryPath))), LAMBDA same, entry :
        Done(b, Return(StatsOf(b.entries[entry]))))

readdirSync(b, entryPath) ==
    AndThen(Done(b, getEntry(b, normalizePath(entryPath))), LAMBDA same, entry :
        IF b.entries[entry].kind # "dir"
        THEN Done(b, Throw(createErrnoError("ENOTDIR", "readdir", entryPath)))
        ELSE Done(b, Return([i \in 1..Len(b.entries[entry].children) |->
                                b.entries[entry].children[i].name])))

OpenFlags == {"r", "r+", "w", "w+", "a", "a+"}

parseOpenFlags(flags) ==
    IF flags \notin OpenFlags THEN Throw(createErrnoError("EINVAL", "open", <<>>))
    ELSE Return([create   |-> flags \in {"w", "w+", "a", "a+"},
                 truncate |-> flags \in {"w", "w+"},
                 append   |-> flags \in {"a", "a+"},
                 readable |-> flags \in {"r", "r+", "w+", "a+"},
                 writable |-> flags \in {"r+", "w", "w+", "a", "a+"}])

openEntry(b, entryPath, flags) ==
    With(normalizePath(entryPath), LAMBDA normalized :
    With(EntryAt(b, normalized), LAMBDA entry :
    AndThen(Done(b, parseOpenFlags(flags)), LAMBDA same, parsed :
        IF entry # 0
        THEN IF b.entries[entry].kind # "file"
             THEN Done(b, Throw(createErrnoError("EISDIR", "open", entryPath)))
             ELSE Done(IF parsed.truncate
                       THEN [b EXCEPT !.entries[entry].content = <<>>] ELSE b,
                       IF ~parsed.readable /\ ~parsed.writable
                       THEN Throw(createErrnoError("EINVAL", "open", entryPath))
                       ELSE Return(entry))
        ELSE IF ~parsed.create
        THEN Done(b, Throw(createErrnoError("ENOENT", "open", entryPath)))
        ELSE AndThen(ensureParentDir(b, normalized, FALSE), LAMBDA made, parent :
                 Done(AddEntry(made, parent, Basename(normalized), "file"),
                      Return(Len(made.entries) + 1))))))

\* new InMemoryFileHandle(entry, path, flags)
NewHandle(b, entry, path, flags) ==
    [b EXCEPT !.handles = Append(@, [entry    |-> entry,
                                     path     |-> path,
                                     flags    |-> flags,
                                     position |-> IF flags \in {"a", "a+"}
                                                  THEN Len(b.entries[entry].content) ELSE 0,
                                     closed   |-> FALSE]),
              !.entries[entry].content = IF flags \in {"w", "w+"} THEN <<>> ELSE @]

\* the value is the handle: its index in backend.handles
openSync(b, entryPath, flags) ==
    With(normalizePath(entryPath), LAMBDA normalized :
    AndThen(openEntry(b, normalized, flags), LAMBDA opened, entry :
        Done(NewHandle(opened, entry, normalized, flags), Return(Len(b.handles) + 1))))

\* a handle that can be used after it was closed
AlwaysOpen(b, h) == Return(<<>>)

\* ensureOpen
ensureOpen(b, h) ==
    IF b.handles[h].closed THEN Throw(createErrnoError("EBADF", "read", b.handles[h].path))
    ELSE Return(<<>>)

\* the content of the file of handle h
ContentOf(b, h) == b.entries[b.handles[h].entry].content

Max(a, c) == IF a > c THEN a ELSE c

\* readSync(buffer, offset, length, position): position is <<>> for null or
\* undefined and <<n>> for a number; the value is the bytes copied to buffer
HandleReadSync(b, h, length, position) ==
    With(IF position = <<>> THEN b.handles[h].position ELSE position[1], LAMBDA start :
    With(Min(length, Max(0, Len(ContentOf(b, h)) - start)), LAMBDA bytesRead :
        IF b.handles[h].closed THEN Done(b, ensureOpen(b, h))
        ELSE Done([b EXCEPT !.handles[h].position =
                                IF position = <<>> THEN start + bytesRead ELSE @],
                  Return(SubSeq(ContentOf(b, h), start + 1, start + bytesRead)))))

\* slice laid over content from start
Overlaid(content, start, slice) ==
    [i \in 1..Max(Len(content), start + Len(slice)) |->
        IF i > start /\ i <= start + Len(slice) THEN slice[i - start]
        ELSE IF i <= Len(content) THEN content[i] ELSE 0]

\* writeSync(buffer, offset, length, position): slice is
\* buffer.subarray(offset, offset + length)
HandleWriteSync(b, h, slice, position) ==
    With(IF position = <<>> THEN b.handles[h].position ELSE position[1], LAMBDA start :
        IF b.handles[h].closed THEN Done(b, ensureOpen(b, h))
        ELSE Done([b EXCEPT !.entries[b.handles[h].entry].content = Overlaid(@, start, slice),
                            !.handles[h].position =
                                IF position = <<>> THEN start + Len(slice) ELSE @],
                  Return(Len(slice))))

HandleReadFileSync(b, h) ==
    IF b.handles[h].closed THEN Done(b, ensureOpen(b, h))
    ELSE Done(b, Return(ContentOf(b, h)))

HandleWriteFileSync(b, h, data) ==
    IF b.handles[h].closed THEN Done(b, ensureOpen(b, h))
    ELSE With(IF b.handles[h].flags \in {"a", "a+"} THEN ContentOf(b, h) \o data ELSE data,
              LAMBDA content :
                  Done([b EXCEPT !.entries[b.handles[h].entry].content = content,
                                 !.handles[h].position = Len(content)],
                       Return(<<>>)))

HandleStatSync(b, h) ==
    IF b.handles[h].closed THEN Done(b, ensureOpen(b, h))
    ELSE Done(b, Return(StatsOf(b.entries[b.handles[h].entry])))

HandleTruncateSync(b, h, length) ==
    IF b.handles[h].closed THEN Done(b, ensureOpen(b, h))
    ELSE Done([b EXCEPT !.entries[b.handles[h].entry].content = Resized(@, length)],
              Return(<<>>))

HandleCloseSync(b, h) ==
    Done([b EXCEPT !.handles[h].closed = TRUE], Return(<<>>))

\* ------------------------------------------------------------------------
\* The backend on its own: the calls of one InMemoryFsBackend that make, move
\* and remove entries
\* ------------------------------------------------------------------------

MaxEntries == 4

\* no HTTP hooks in the states of the file system
NoHttp ==
    /\ options = <<>>
    /\ rng = <<>>
    /\ hooks = NotCreated

StrRoot == <<47>>  \* "/"

StrA == <<47, 97>>  \* "/a"

StrB == <<47, 98>>  \* "/b"

StrAB == <<47, 97, 47, 98>>  \* "/a/b"

StrASlash == <<47, 97, 47>>  \* "/a/"

BackendPaths == {StrRoot, StrA, StrB, StrAB, StrASlash}

\* a flag of each kind, and a word that is no flag
BackendFlags == {"r", "w", "a", "x"}

\* the call of a backend method: what it was given and what came of it (the
\* value it returned goes with the name of the method)
BackendCall(op, input, done) ==
    [op |-> op, input |-> input, threw |-> done.threw,
     value |-> IF done.threw THEN <<>> ELSE <<op, done.value>>,
     error |-> done.error]

\* the backend takes the call if it stays within the bounds; the caller lets
\* go of the handle that open returned
Takes(op, input, done) ==
    /\ Len(done.backend.entries) <= MaxEntries
    /\ backend' = [done.backend EXCEPT !.handles = <<>>]
    /\ call' = BackendCall(op, input, done)
    /\ UNCHANGED <<options, rng, hooks, vfs, events, tasks, net>>

InitBackend ==
    /\ NoHttp
    /\ call = Idle
    /\ backend = NewBackend
    /\ vfs = [created |-> FALSE]
    /\ events = <<>>
    /\ tasks = <<>>
    /\ NoNet

BackendOpen ==
    \E path \in BackendPaths, flags \in BackendFlags :
        Takes("open", [path |-> path, flags |-> flags], openSync(backend, path, flags))

BackendMkdir ==
    \E path \in BackendPaths, recursive \in BOOLEAN :
        Takes("mkdir", [path |-> path, recursive |-> recursive],
              mkdirSync(backend, path, recursive))

BackendRmdir ==
    \E path \in BackendPaths :
        Takes("rmdir", [path |-> path], rmdirSync(backend, path))

BackendUnlink ==
    \E path \in BackendPaths :
        Takes("unlink", [path |-> path], unlinkSync(backend, path))

BackendRename ==
    \E oldPath \in BackendPaths, newPath \in BackendPaths :
        Takes("rename", [path |-> oldPath, newPath |-> newPath],
              renameSync(backend, oldPath, newPath))

NextInodes ==
    \/ BackendOpen
    \/ BackendMkdir
    \/ BackendRmdir
    \/ BackendUnlink
    \/ BackendRename

SpecInodes == InitBackend /\ [][NextInodes]_vars

\* ------------------------------------------------------------------------
\* SandboxVfsProvider and HookedHandle (src/host/src/vfs/provider.ts)
\*
\* A hook is "absent", "sync" (it returns undefined) or "async" (it returns a
\* promise). A call through the provider or through a handle is a task: the
\* hooked operations it still has to make (steps), each in three phases
\* (the before hook, the operation of the backend, the after hook), and its
\* outcome once it is done. An event is what a hook or the backend has seen.
\* ------------------------------------------------------------------------

HookKinds == {"absent", "sync", "async"}

\* new Error("async hook used in sync operation")
AsyncHookError == [kind |-> "Error", message |-> "async hook used in sync operation"]

\* new SandboxVfsProvider(backend, hooks)
NewProvider(before, after) ==
    [created |-> TRUE, hooks |-> [before |-> before, after |-> after],
     throws |-> [before |-> {}, after |-> {}]]

\* wrapHandle: the handle of the backend itself if no hook is installed, a
\* HookedHandle around it otherwise
wrapHandle(v, handle) ==
    [handle |-> handle,
     hooked |-> ~(v.hooks.before = "absent" /\ v.hooks.after = "absent")]

\* a hooked operation of the provider
OnProvider(op, flags) == [on |-> "provider", op |-> op, method |-> op, flags |-> flags]

\* a hooked operation of a handle: op is what the hooks are told
OnHandle(op, method) == [on |-> "handle", op |-> op, method |-> method, flags |-> ""]

\* a provider that tells its hooks `close` when a handle is closed
ScriptTellingClose(on, method, input) ==
    IF on = "handle" THEN <<OnHandle(method, method)>>
    ELSE <<OnProvider(method, input.flags)>>

\* the hooked operations that a method makes, in order
Script(on, method, input) ==
    IF on = "handle"
    THEN <<OnHandle(IF method = "close" THEN "release" ELSE method, method)>>
    ELSE IF method \in {"stat", "lstat", "exists", "realpath", "access"}
    THEN <<OnProvider("stat", "")>>
    ELSE IF method = "open" THEN <<OnProvider("open", input.flags)>>
    ELSE IF method = "readFile"
    THEN <<OnProvider("open", "r"), OnHandle("readFile", "readFile"), OnHandle("release", "close")>>
    ELSE IF method = "writeFile"
    THEN <<OnProvider("open", "w"), OnHandle("writeFile", "writeFile"), OnHandle("release", "close")>>
    ELSE IF method = "appendFile"
    THEN <<OnProvider("open", "a"), OnHandle("writeFile", "writeFile"), OnHandle("release", "close")>>
    ELSE IF method \in {"readlink", "symlink", "close"} THEN <<>>
    ELSE <<OnProvider(method, "")>>

\* readFile, writeFile and appendFile of the provider: open, the operation on
\* the handle, and close in `finally`
IsComposite(t) == t.on = "provider" /\ t.method \in {"readFile", "writeFile", "appendFile"}

\* the operation of the backend or of its handle
BackendDo(b, prim, t) ==
    IF prim.on = "provider"
    THEN CASE prim.method = "open" -> openSync(b, t.input.path, prim.flags)
           [] prim.method = "stat" -> statSync(b, t.input.path)
           [] prim.method = "readdir" -> readdirSync(b, t.input.path)
           [] prim.method = "mkdir" -> mkdirSync(b, t.input.path, FALSE)
           [] prim.method = "rmdir" -> rmdirSync(b, t.input.path)
           [] prim.method = "unlink" -> unlinkSync(b, t.input.path)
           [] prim.method = "rename" -> renameSync(b, t.input.path, t.input.newPath)
           [] prim.method = "truncate" -> truncateSync(b, t.input.path, t.input.length)
    ELSE CASE prim.method = "read" -> HandleReadSync(b, t.handle, t.input.length, <<>>)
           [] prim.method = "write" -> HandleWriteSync(b, t.handle, t.input.data, <<>>)
           [] prim.method = "readFile" -> HandleReadFileSync(b, t.handle)
           [] prim.method = "writeFile" -> HandleWriteFileSync(b, t.handle, t.input.data)
           [] prim.method = "stat" -> HandleStatSync(b, t.handle)
           [] prim.method = "truncate" -> HandleTruncateSync(b, t.handle, t.input.length)
           [] prim.method = "close" -> HandleCloseSync(b, t.handle)

\* the backend, the events and the task after a step of the task
St(b, ev, t) == [backend |-> b, events |-> ev, task |-> t]

\* the call is over: it returned outcome.value or threw outcome.error (the
\* value goes with the name of the method)
Finished(t, outcome) ==
    [t EXCEPT !.status = "done", !.steps = <<>>, !.threw = outcome.threw,
              !.value = IF outcome.threw THEN <<>> ELSE <<t.method, outcome.value>>,
              !.error = outcome.error]

\* a sync form that lets a promise pass
HookNeverRejected(sync, kind) == FALSE

\* runBeforeSync / runAfterSync: `if (result && typeof result.then ===
\* "function") throw new Error("async hook used in sync operation")`
HookRejected(sync, kind) == sync /\ kind = "async"

\* new Error(...) thrown by a hook of the user, or the reason of the promise it
\* returned
HookError == [kind |-> "Error", message |-> "thrown by hook"]

\* a provider that goes on whatever a hook throws
HookNeverThrows(v, phase, prim) == FALSE

\* `await this.hooks.before(context)` / `await this.hooks.after(context)`: the
\* hook throws, or the promise it returned rejects, for the operations the
\* user made it fail for
HookThrows(v, phase, prim) ==
    v.hooks[phase] # "absent" /\ prim.op \in v.throws[phase]

\* this.hooks.before(context) / this.hooks.after(context), if installed
HookCalled(ev, kind, phase, prim, id) ==
    IF kind = "absent" THEN ev
    ELSE Append(ev, [kind |-> phase, op |-> prim.op, on |-> prim.on, task |-> id])

\* the backend has been called
BackendCalled(ev, prim, id) ==
    Append(ev, [kind |-> "backend", op |-> prim.method, on |-> prim.on, task |-> id])

\* a hook or the backend threw error
FailPrim(b, ev, t, prim, error) ==
    IF IsComposite(t) /\ prim.on = "handle" /\ prim.method # "close"
    THEN St(b, ev, [t EXCEPT !.steps = Tail(@), !.phase = "before", !.pending = Throw(error)])
    ELSE IF t.on = "provider" /\ t.method = "exists"
    THEN St(b, ev, Finished(t, Return(FALSE)))
    ELSE St(b, ev, Finished(t, Throw(error)))

\* what the method returns to its caller
ResultOf(v, t, value) ==
    IF t.on = "handle" THEN value
    ELSE CASE t.method = "open" -> wrapHandle(v, value)
           [] t.method = "exists" -> TRUE
           [] t.method = "realpath" -> t.input.path
           [] t.method = "access" -> <<>>
           [] OTHER -> value

\* the after hook has returned
CompletePrim(b, ev, v, t, prim, value) ==
    IF IsComposite(t)
    THEN IF prim.method = "open"
         THEN St(b, ev, [t EXCEPT !.steps = Tail(@), !.phase = "before", !.handle = value])
         ELSE IF prim.method = "close"
         THEN St(b, ev, Finished(t, t.pending))
         ELSE St(b, ev, [t EXCEPT !.steps = Tail(@), !.phase = "before",
                                  !.pending = Return(value)])
    ELSE St(b, ev, Finished(t, Return(ResultOf(v, t, value))))

\* one phase of the hooked operation at the head of the steps of task id:
\* runBefore, the backend, runAfter
StepTask(b, ev, v, t, id) ==
    With(Head(t.steps), LAMBDA prim :
        IF t.phase = "before"
        THEN With(HookCalled(ev, v.hooks.before, "before", prim, id), LAMBDA seen :
                 IF HookRejected(t.sync, v.hooks.before)
                 THEN FailPrim(b, seen, t, prim, AsyncHookError)
                 ELSE IF HookThrows(v, "before", prim)
                 THEN FailPrim(b, seen, t, prim, HookError)
                 ELSE St(b, seen, [t EXCEPT !.phase = "backend"]))
        ELSE IF t.phase = "backend"
        THEN With(BackendDo(b, prim, t), LAMBDA done :
                 IF done.threw
                 THEN FailPrim(done.backend, BackendCalled(ev, prim, id), t, prim, done.error)
                 ELSE St(done.backend, BackendCalled(ev, prim, id),
                         [t EXCEPT !.phase = "after", !.got = <<prim.method, done.value>>]))
        ELSE With(HookCalled(ev, v.hooks.after, "after", prim, id), LAMBDA seen :
                 IF HookRejected(t.sync, v.hooks.after)
                 THEN FailPrim(b, seen, t, prim, AsyncHookError)
                 ELSE IF HookThrows(v, "after", prim)
                 THEN FailPrim(b, seen, t, prim, HookError)
                 ELSE CompletePrim(b, seen, v, t, prim, t.got[2])))

\* a sync form runs to its end
RECURSIVE Finish(_, _, _, _, _)
Finish(b, ev, v, t, id) ==
    With(StepTask(b, ev, v, t, id), LAMBDA st :
        IF st.task.status = "done" THEN st
        ELSE Finish(st.backend, st.events, v, st.task, id))

\* a provider that guards every mutating method but truncate
GuardedButTruncate ==
    {"mkdir", "rmdir", "unlink", "rename", "writeFile", "appendFile", "symlink"}

\* the methods that start with `if (this.readonly) throw createErrnoError(ERRNO.EROFS, ...)`
ReadonlyGuarded ==
    {"mkdir", "rmdir", "unlink", "rename", "writeFile", "appendFile", "symlink", "truncate"}

\* the syscall named by the EROFS error of a method
GuardSyscall(method) == IF method \in {"writeFile", "appendFile"} THEN "open" ELSE method

NewTask(on, method, sync, handle, input) ==
    [on |-> on, method |-> method, sync |-> sync, handle |-> handle, input |-> input,
     steps |-> Script(on, method, input), phase |-> "before", pending |-> Return(<<>>),
     got |-> <<>>, status |-> "pending", threw |-> FALSE, value |-> <<>>, error |-> NoError,
     with |-> {}]

\* the call of a method, up to the point where it first waits (async form)
\* or to its end (sync form)
Start(b, ev, v, t, id) ==
    IF t.on = "provider" /\ t.method \in ReadonlyGuarded /\ b.readonly
    THEN St(b, ev, Finished(t, Throw(createErrnoError("EROFS", GuardSyscall(t.method),
                                                      t.input.path))))
    ELSE IF t.on = "provider" /\ t.method \in {"readlink", "symlink"}
    THEN St(b, ev, Finished(t, Throw(createErrnoError("ENOENT", t.method, t.input.path))))
    ELSE IF t.on = "provider" /\ t.method = "close"
    THEN St(b, ev, Finished(t, Return(<<>>)))
    ELSE IF t.sync THEN Finish(b, ev, v, t, id)
    ELSE StepTask(b, ev, v, t, id)

\* ------------------------------------------------------------------------
\* A provider with hooks over a backend: the calls of one caller, of which
\* the async forms may be in flight together
\* ------------------------------------------------------------------------

MaxProviderCalls == 1

MaxHandleCalls == 2

MaxInFlight == 2

StrF == <<47, 102>>  \* "/f"

StrD == <<47, 100>>  \* "/d"

StrG == <<47, 103>>  \* "/g"

StrHi == <<104, 105>>  \* "hi"

\* a backend in which /f is a file that holds "hi" and /d is a directory
Populated ==
    [NewBackend EXCEPT
        !.entries = <<[kind |-> "dir", ino |-> 1,
                       children |-> <<[name |-> <<102>>, id |-> 2], [name |-> <<100>>, id |-> 3]>>,
                       content |-> <<>>],
                      [kind |-> "file", ino |-> 2, children |-> <<>>, content |-> StrHi],
                      [kind |-> "dir", ino |-> 3, children |-> <<>>, content |-> <<>>]>>,
        !.nextIno = 4]

ProviderMethods ==
    {"open", "stat", "lstat", "readdir", "mkdir", "rmdir", "unlink", "rename", "readFile",
     "writeFile", "appendFile", "exists", "realpath", "access", "readlink", "symlink",
     "truncate", "close"}

HandleMethods == {"read", "write", "readFile", "writeFile", "stat", "truncate", "close"}

\* what the caller passes to a method of the provider
ProviderInputs(method) ==
    {[path |-> path, newPath |-> StrG, flags |-> flags, data |-> StrHi, length |-> 0] :
        path \in IF method \in {"open", "close"} THEN {StrF} ELSE {StrF, StrD},
        flags \in IF method = "open" THEN {"r", "w+"} ELSE {""}}

\* what the caller passes to a method of a handle
HandleInput ==
    [path |-> <<>>, newPath |-> <<>>, flags |-> "", data |-> StrHi, length |-> 1]

\* the handles that open has returned to the caller
Handles ==
    {tasks[i].value[2].handle : i \in {j \in 1..Len(tasks) :
        tasks[j].on = "provider" /\ tasks[j].method = "open"
            /\ tasks[j].status = "done" /\ ~tasks[j].threw}}

Pending == {i \in 1..Len(tasks) : tasks[i].status = "pending"}

CallsOn(on) == Cardinality({i \in 1..Len(tasks) : tasks[i].on = on})

InitProvider ==
    /\ NoHttp
    /\ call = Idle
    /\ backend \in {[b EXCEPT !.readonly = r] : b \in {NewBackend, Populated}, r \in BOOLEAN}
    /\ vfs \in {NewProvider(before, after) : before \in HookKinds, after \in HookKinds}
    /\ events = <<>>
    /\ tasks = <<>>
    /\ NoNet

\* the caller makes the call t; the call keeps the calls that are in flight
\* when it is made
Calls(t) ==
    /\ Cardinality(Pending) < MaxInFlight
    /\ With(Start(backend, events, vfs, [t EXCEPT !.with = Pending], Len(tasks) + 1), LAMBDA st :
           /\ backend' = st.backend
           /\ events' = st.events
           /\ tasks' = Append(tasks, st.task))
    /\ UNCHANGED <<httpVars, vfs, net>>

ProviderCall ==
    /\ CallsOn("provider") < MaxProviderCalls
    /\ \E method \in ProviderMethods : \E input \in ProviderInputs(method) :
           Calls(NewTask("provider", method, FALSE, 0, input))

ProviderCallSync ==
    /\ CallsOn("provider") < MaxProviderCalls
    /\ \E method \in ProviderMethods \ {"close"} : \E input \in ProviderInputs(method) :
           Calls(NewTask("provider", method, TRUE, 0, input))

HandleCall ==
    /\ CallsOn("handle") < MaxHandleCalls
    /\ \E method \in HandleMethods : \E handle \in Handles :
           Calls(NewTask("handle", method, FALSE, handle, HandleInput))

HandleCallSync ==
    /\ CallsOn("handle") < MaxHandleCalls
    /\ \E method \in HandleMethods : \E handle \in Handles :
           Calls(NewTask("handle", method, TRUE, handle, HandleInput))

\* a call in flight goes on to the point where it next waits
Resume ==
    /\ \E id \in Pending :
           With(StepTask(backend, events, vfs, tasks[id], id), LAMBDA st :
               /\ backend' = st.backend
               /\ events' = st.events
               /\ tasks' = [tasks EXCEPT ![id] = st.task])
    /\ UNCHANGED <<httpVars, vfs, net>>

NextProvider ==
    \/ ProviderCall
    \/ ProviderCallSync
    \/ HandleCall
    \/ HandleCallSync
    \/ Resume

SpecProvider == InitProvider /\ [][NextProvider]_vars

\* ------------------------------------------------------------------------
\* The same calls through a provider whose hooks throw (or return a promise
\* that rejects) for some of the operations they are told
\* ------------------------------------------------------------------------

\* the operations a hook is told
HookOps ==
    {"open", "stat", "readdir", "mkdir", "rmdir", "unlink", "rename", "truncate",
     "read", "write", "readFile", "writeFile", "release"}

\* the hooks of the user: what each one is, and the operations it fails for
ThrowingHooks ==
    {<<"sync", HookOps, "sync", {}>>,
     <<"async", HookOps, "sync", {}>>,
     <<"sync", {"readFile", "writeFile"}, "sync", {}>>,
     <<"async", {"release"}, "absent", {}>>,
     <<"sync", HookOps \ {"open"}, "async", {}>>,
     <<"sync", {}, "sync", HookOps>>,
     <<"absent", {}, "async", {"open"}>>,
     <<"sync", {}, "sync", {"readFile", "writeFile", "release"}>>,
     <<"sync", {}, "sync", {}>>}

InitVeto ==
    /\ NoHttp
    /\ call = Idle
    /\ backend \in {NewBackend, Populated}
    /\ vfs \in {[NewProvider(h[1], h[3]) EXCEPT !.throws = [before |-> h[2], after |-> h[4]]] :
                   h \in ThrowingHooks}
    /\ events = <<>>
    /\ tasks = <<>>
    /\ NoNet

SpecVeto == InitVeto /\ [][NextProvider]_vars

\* ------------------------------------------------------------------------
\* MountRouterProvider over in-memory mounts. Its file (vfs/mounts) is not
\* among the sources: the routing is what its tests show and the design
\* notes name (EXDEV); the mounts are InMemoryFsBackends.
\* ------------------------------------------------------------------------

\* a mount: the path it is mounted at and what is mounted there
Mount(path, b) == [path |-> path, backend |-> b]

\* path is the mount path or lies below it
Under(path, mountPath) ==
    \/ mountPath = <<47>>
    \/ path = mountPath
    \/ /\ Len(path) > Len(mountPath)
       /\ SubSeq(path, 1, Len(mountPath)) = mountPath
       /\ path[Len(mountPath) + 1] = 47

\* the mount that serves path: the one with the longest mount path that path
\* lies under, 0 if there is none
resolveMount(mounts, path) ==
    With({i \in 1..Len(mounts) : Under(path, mounts[i].path)}, LAMBDA under :
        IF under = {} THEN 0
        ELSE CHOOSE i \in under : \A j \in under : Len(mounts[j].path) <= Len(mounts[i].path))

\* path as the mount sees it
relativePath(mounts, i, path) ==
    IF mounts[i].path = <<47>> THEN path
    ELSE IF path = mounts[i].path THEN <<47>>
    ELSE SubSeq(path, Len(mounts[i].path) + 1, Len(path))

\* what a method of the router leaves behind: the mounts after the call and
\* what the call returned or threw
Routed(mounts, outcome) ==
    [mounts |-> mounts, threw |-> outcome.threw, value |-> outcome.value, error |-> outcome.error]

\* mount i has taken a call
RoutedTo(mounts, i, done) ==
    Routed([mounts EXCEPT ![i].backend = done.backend], done)

\* open, mkdir, unlink: the call goes to the mount that serves the path
routerOpen(mounts, path, flags) ==
    With(resolveMount(mounts, path), LAMBDA i :
        IF i = 0 THEN Routed(mounts, Throw(createErrnoError("ENOENT", "open", path)))
        ELSE RoutedTo(mounts, i, openSync(mounts[i].backend, relativePath(mounts, i, path), flags)))

routerMkdir(mounts, path) ==
    With(resolveMount(mounts, path), LAMBDA i :
        IF i = 0 THEN Routed(mounts, Throw(createErrnoError("ENOENT", "mkdir", path)))
        ELSE RoutedTo(mounts, i, mkdirSync(mounts[i].backend, relativePath(mounts, i, path), FALSE)))

routerUnlink(mounts, path) ==
    With(resolveMount(mounts, path), LAMBDA i :
        IF i = 0 THEN Routed(mounts, Throw(createErrnoError("ENOENT", "unlink", path)))
        ELSE RoutedTo(mounts, i, unlinkSync(mounts[i].backend, relativePath(mounts, i, path))))

\* a router that hands a rename to the mount of the source whatever the mount
\* of the destination
RenameInSourceMount(mounts, oldPath, newPath) ==
    With(resolveMount(mounts, oldPath), LAMBDA from :
        IF from = 0
        THEN Routed(mounts, Throw(createErrnoError("ENOENT", "rename", oldPath)))
        ELSE RoutedTo(mounts, from,
                      renameSync(mounts[from].backend, relativePath(mounts, from, oldPath),
                                 relativePath(mounts, from, newPath))))

\* rename: EXDEV if the two paths are served by different mounts
routerRename(mounts, oldPath, newPath) ==
    With(resolveMount(mounts, oldPath), LAMBDA from :
    With(resolveMount(mounts, newPath), LAMBDA to :
        IF from = 0 \/ to = 0
        THEN Routed(mounts, Throw(createErrnoError("ENOENT", "rename", oldPath)))
        ELSE IF from # to
        THEN Routed(mounts, Throw(createErrnoError("EXDEV", "rename", oldPath)))
        ELSE RoutedTo(mounts, from,
                      renameSync(mounts[from].backend, relativePath(mounts, from, oldPath),
                                 relativePath(mounts, to, newPath)))))

\* ------------------------------------------------------------------------
\* A router over two mounts: the calls that make, move and remove entries
\* ------------------------------------------------------------------------

MaxMountEntries == 3

StrApp == <<47, 97, 112, 112>>  \* "/app"

StrAppA == <<47, 97, 112, 112, 47, 97>>  \* "/app/a"

StrData == <<47, 100, 97, 116, 97>>  \* "/data"

StrDataA == <<47, 100, 97, 116, 97, 47, 97>>  \* "/data/a"

RouterPaths == {StrA, StrB, StrApp, StrAppA, StrDataA}

\* with and without a mount at "/"
MountPaths == {<<StrRoot, StrApp>>, <<StrApp, StrData>>}

InitRouter ==
    /\ NoHttp
    /\ call = Idle
    /\ backend = [created |-> FALSE]
    /\ vfs \in {[created |-> TRUE,
                 mounts |-> <<Mount(at[1], NewBackend), Mount(at[2], NewBackend)>>] :
                    at \in MountPaths}
    /\ events = <<>>
    /\ tasks = <<>>
    /\ NoNet

\* the router takes the call if the mounts stay within the bounds; the caller
\* lets go of the handle that open returned
Routes(op, input, done) ==
    /\ \A i \in 1..Len(done.mounts) : Len(done.mounts[i].backend.entries) <= MaxMountEntries
    /\ vfs' = [vfs EXCEPT !.mounts =
                  [i \in 1..Len(done.mounts) |->
                      [done.mounts[i] EXCEPT !.backend.handles = <<>>]]]
    /\ call' = [op |-> op, input |-> input, threw |-> done.threw,
                value |-> IF done.threw THEN <<>> ELSE <<op, done.value>>,
                error |-> done.error]
    /\ UNCHANGED <<options, rng, hooks, backend, events, tasks, net>>

RouterOpen ==
    \E path \in RouterPaths :
        Routes("open", [path |-> path, newPath |-> <<>>], routerOpen(vfs.mounts, path, "w"))

RouterMkdir ==
    \E path \in RouterPaths :
        Routes("mkdir", [path |-> path, newPath |-> <<>>], routerMkdir(vfs.mounts, path))

RouterUnlink ==
    \E path \in RouterPaths :
        Routes("unlink", [path |-> path, newPath |-> <<>>], routerUnlink(vfs.mounts, path))

RouterRename ==
    \E oldPath \in RouterPaths, newPath \in RouterPaths :
        Routes("rename", [path |-> oldPath, newPath |-> newPath],
               routerRename(vfs.mounts, oldPath, newPath))

NextRouter ==
    \/ RouterOpen
    \/ RouterMkdir
    \/ RouterUnlink
    \/ RouterRename

SpecRouter == InitRouter /\ [][NextRouter]_vars

\* ------------------------------------------------------------------------
\* TCP engine: the receive side of one connection (design section 4.4; the
\* network stack is not among the sources). Sequence numbers are counted
\* modulo SeqSpace, which stands for 2^32; a byte waiting out of order is
\* kept with its sequence number.
\* ------------------------------------------------------------------------

SeqSpace == 16

RcvWindow == 4

MaxSegment == 3

SeqAdd(a, n) == (a + n) % SeqSpace

\* how far b lies ahead of a; negative if it lies behind
SeqDiff(b, a) ==
    With((b - a + SeqSpace) % SeqSpace, LAMBDA d :
        IF 2 * d >= SeqSpace THEN d - SeqSpace ELSE d)

\* a connection in LISTEN: nothing received, nothing handed on
NewConnection ==
    [created |-> TRUE, kind |-> "tcp", state |-> "LISTEN", irs |-> 0, rcvNxt |-> 0,
     queue |-> {}, delivered |-> <<>>, acked |-> 0]

\* SYN: the connection takes the guest's initial sequence number; a SYN on a
\* connection that exists changes nothing
onSyn(c, isn) ==
    IF c.state # "LISTEN" THEN c
    ELSE [c EXCEPT !.state = "SYN_RECEIVED", !.irs = isn, !.rcvNxt = SeqAdd(isn, 1),
                   !.acked = SeqAdd(isn, 1)]

\* the ACK of the engine's SYN-ACK
onAck(c) == IF c.state = "SYN_RECEIVED" THEN [c EXCEPT !.state = "ESTABLISHED"] ELSE c

\* RST is honoured
onRst(c) == IF c.state = "LISTEN" THEN c ELSE [c EXCEPT !.state = "CLOSED", !.queue = {}]

\* the bytes of a segment that lie in the receive window, each with its
\* sequence number
InWindow(c, seq, data) ==
    {<<SeqAdd(seq, k - 1), data[k]>> : k \in
        {j \in 1..Len(data) : /\ SeqDiff(SeqAdd(seq, j - 1), c.rcvNxt) >= 0
                              /\ SeqDiff(SeqAdd(seq, j - 1), c.rcvNxt) < RcvWindow}}

\* the bytes waiting, a byte that waits already is kept
Coalesced(queue, bytes) ==
    queue \cup {b \in bytes : \A q \in queue : q[1] # b[1]}

\* an engine that hands on whatever waits
EverythingWaiting(queue, rcvNxt) == Cardinality(queue)

\* how many bytes from rcvNxt on wait without a gap
InSequenceRun(queue, rcvNxt) ==
    CHOOSE n \in 0..Cardinality(queue) :
        /\ \A k \in 0..(n - 1) : \E q \in queue : q[1] = SeqAdd(rcvNxt, k)
        /\ \A q \in queue : q[1] # SeqAdd(rcvNxt, n)

\* the n bytes waiting that are nearest to rcvNxt, in order
RECURSIVE Taken(_, _, _)
Taken(queue, rcvNxt, n) ==
    IF n = 0 \/ queue = {} THEN <<>>
    ELSE With(CHOOSE q \in queue :
                  \A r \in queue : SeqDiff(q[1], rcvNxt) <= SeqDiff(r[1], rcvNxt),
              LAMBDA q : <<q>> \o Taken(queue \ {q}, rcvNxt, n - 1))

\* a data segment: what lies outside the window is rejected, what lies in it
\* waits, and the run that starts at rcvNxt is handed to the flow layer and
\* acknowledged
onSegment(c, seq, data) ==
    IF c.state # "ESTABLISHED" THEN c
    ELSE With(Coalesced(c.queue, InWindow(c, seq, data)), LAMBDA waiting :
         With(Taken(waiting, c.rcvNxt, InSequenceRun(waiting, c.rcvNxt)), LAMBDA run :
             [c EXCEPT !.queue = waiting \ {run[k] : k \in 1..Len(run)},
                       !.delivered = @ \o [k \in 1..Len(run) |-> run[k][2]],
                       !.rcvNxt = SeqAdd(@, Len(run)),
                       !.acked = SeqAdd(c.rcvNxt, Len(run))]))

\* ------------------------------------------------------------------------
\* One connection and a guest that sends the pieces of its byte stream in any
\* order, any number of times
\* ------------------------------------------------------------------------

\* the bytes the guest has to send
GuestStream == <<71, 69, 84, 32, 47, 10>>

\* initial sequence numbers, one of them close to the wrap
GuestIsns == {0, SeqSpace - 3}

InitTcp ==
    /\ NoHttp
    /\ call = Idle
    /\ NoVfs
    /\ net = NewConnection

\* the connection after a segment of the guest, and the segment
Receives(op, seq, data, connection) ==
    /\ net' = connection
    /\ call' = [op |-> op, seq |-> seq, data |-> data]
    /\ UNCHANGED <<options, rng, hooks, vfsVars>>

GuestSyn ==
    \E isn \in GuestIsns : Receives("syn", isn, <<>>, onSyn(net, isn))

GuestAck ==
    /\ net.state = "SYN_RECEIVED"
    /\ Receives("ack", net.rcvNxt, <<>>, onAck(net))

GuestSegment ==
    /\ net.state \in {"SYN_RECEIVED", "ESTABLISHED", "CLOSED"}
    /\ \E i \in 1..Len(GuestStream), n \in 1..MaxSegment :
           /\ i + n - 1 <= Len(GuestStream)
           /\ Receives("segment", SeqAdd(net.irs, i), SubSeq(GuestStream, i, i + n - 1),
                       onSegment(net, SeqAdd(net.irs, i), SubSeq(GuestStream, i, i + n - 1)))

GuestRst ==
    /\ net.state # "LISTEN"
    /\ Receives("rst", net.rcvNxt, <<>>, onRst(net))

NextTcp ==
    \/ GuestSyn
    \/ GuestAck
    \/ GuestSegment
    \/ GuestRst

SpecTcp == InitTcp /\ [][NextTcp]_vars

\* ------------------------------------------------------------------------
\* DNS stub and NameBinding (design sections 3, 4.3 and 4.8; the network
\* stack is not among the sources). A synthetic IP is the number of an
\* address of the private pool; forward is the map from hostname to synthetic
\* IP and reverse the map from synthetic IP to hostname, both in the order
\* the entries were made.
\* ------------------------------------------------------------------------

PoolSize == 3

\* the DNS stub of a VM with the given allowed-host patterns: nothing bound
NewStub(allowedHosts) ==
    [created |-> TRUE, kind |-> "dns", allowedHosts |-> allowedHosts,
     forward |-> <<>>, reverse |-> <<>>, nextIp |-> 1]

\* the synthetic IP bound to name, 0 if there is none
boundIp(d, name) ==
    IF \E i \in 1..Len(d.forward) : d.forward[i].name = name
    THEN d.forward[CHOOSE i \in 1..Len(d.forward) : d.forward[i].name = name].ip
    ELSE 0

\* the hostname that the synthetic IP stands for, <<>> if there is none
boundName(d, ip) ==
    IF \E i \in 1..Len(d.reverse) : d.reverse[i].ip = ip
    THEN d.reverse[CHOOSE i \in 1..Len(d.reverse) : d.reverse[i].ip = ip].name
    ELSE <<>>

\* the hostname check of admission: it passes if allowedHosts is empty,
\* else the hostname must match a pattern
admitHostname(hostname, allowedHosts) ==
    Len(allowedHosts) = 0 \/ matchesAnyHost(hostname, allowedHosts)

\* a stub that answers with the address it handed out last
LastIpAgain(d) == IF d.nextIp > 1 THEN d.nextIp - 1 ELSE d.nextIp

\* a fresh synthetic IP of the pool
freshIp(d) == d.nextIp

\* the answer to a query and the stub after it
Answer(d, rcode, ip) == [stub |-> d, rcode |-> rcode, answer |-> ip]

\* a query for name with the given type
onQuery(d, name, qtype) ==
    With(ToLowerCase(name), LAMBDA hostname :
        IF qtype \notin {"A", "AAAA"} THEN Answer(d, "NOERROR", 0)
        ELSE IF boundIp(d, hostname) # 0 THEN Answer(d, "NOERROR", boundIp(d, hostname))
        ELSE IF ~admitHostname(hostname, d.allowedHosts) THEN Answer(d, "NXDOMAIN", 0)
        ELSE IF d.nextIp > PoolSize THEN Answer(d, "SERVFAIL", 0)
        ELSE Answer([d EXCEPT !.forward = Append(@, [name |-> hostname, ip |-> freshIp(d)]),
                              !.reverse = Append(@, [ip |-> freshIp(d), name |-> hostname]),
                              !.nextIp = @ + 1],
                    "NOERROR", freshIp(d)))

\* ------------------------------------------------------------------------
\* The stub of one VM and the queries of its guest
\* ------------------------------------------------------------------------

HostApiUpper == <<65, 80, 73, 46, 69, 88, 65, 77, 80, 76, 69, 46, 67, 79, 77>>  \* "API.EXAMPLE.COM"

QueryNames == {HostApi, HostApiUpper, HostUpper, HostExample, HostEvil}

QueryTypes == {"A", "AAAA", "MX"}

\* the allowed-host patterns of the policy: none, one name, one glob
StubPolicies == {<<>>, <<HostApi>>, <<PatStarExample>>}

InitDns ==
    /\ NoHttp
    /\ call = Idle
    /\ NoVfs
    /\ net \in {NewStub(allowedHosts) : allowedHosts \in StubPolicies}

Query ==
    \E name \in QueryNames, qtype \in QueryTypes :
        With(onQuery(net, name, qtype), LAMBDA answered :
            /\ net' = answered.stub
            /\ call' = [op |-> "query", name |-> name, qtype |-> qtype,
                        rcode |-> answered.rcode, answer |-> answered.answer])
    /\ UNCHANGED <<options, rng, hooks, vfsVars>>

NextDns == Query

SpecDns == InitDns /\ [][NextDns]_vars

\* ------------------------------------------------------------------------
\* Flow classifier (design section 4.5; the network stack is not among the
\* sources). peek holds the first bytes of the connection's receive stream
\* while there is no verdict; forwarded is what has been handed to the
\* interception layer. A ClientHello is cut down to its record type 0x16,
\* the major version 0x03 and the handshake type 0x01.
\* ------------------------------------------------------------------------

\* the bytes after which an unclassified flow is dropped: stands for 16 KiB
GraceBytes == 4

\* the bytes handed on that the model keeps track of
MaxForwarded == 5

StrGet == <<71, 69, 84>>  \* "GET"

StrPut == <<80, 85, 84>>  \* "PUT"

MethodTokens == {StrGet, StrPut}

\* bytes begins with start
StartsWith(bytes, start) ==
    Len(bytes) >= Len(start) /\ SubSeq(bytes, 1, Len(start)) = start

\* 0x16 0x03 and a handshake of type ClientHello
IsClientHello(bytes) == StartsWith(bytes, <<22, 3, 1>>)

\* a known method token followed by SP
IsHttpStart(bytes) == \E m \in MethodTokens : StartsWith(bytes, m \o <<32>>)

\* a classifier that takes any record of type 0x16 for a ClientHello
ClassifyByRecordType(bytes) ==
    IF StartsWith(bytes, <<22>>) THEN "tls"
    ELSE IF IsHttpStart(bytes) THEN "plaintext-http"
    ELSE "none"

\* the verdict on the first bytes, "none" while there is none
classify(bytes) ==
    IF IsClientHello(bytes) THEN "tls"
    ELSE IF IsHttpStart(bytes) THEN "plaintext-http"
    ELSE "none"

\* a new connection's flow
NewFlow ==
    [created |-> TRUE, kind |-> "flow", state |-> "open", peek |-> <<>>, verdict |-> "none",
     forwarded |-> <<>>, rst |-> FALSE]

\* mark dropped and RST
Dropped(f) == [f EXCEPT !.verdict = "dropped", !.rst = TRUE, !.state = "closed"]

\* bytes of the guest arrive on the connection
onBytes(f, data) ==
    IF f.state = "closed" THEN f
    ELSE IF f.verdict = "none"
    THEN With(f.peek \o data, LAMBDA first :
             IF classify(first) # "none"
             THEN [f EXCEPT !.verdict = classify(first), !.peek = first, !.forwarded = first]
             ELSE IF Len(first) >= GraceBytes THEN Dropped([f EXCEPT !.peek = first])
             ELSE [f EXCEPT !.peek = first])
    ELSE [f EXCEPT !.forwarded = @ \o data]

\* the grace of an unclassified flow is over
onGraceExpired(f) ==
    IF f.state = "open" /\ f.verdict = "none" THEN Dropped(f) ELSE f

\* the guest resets the connection, or it is closed in an orderly way
onClose(f) == [f EXCEPT !.state = "closed"]

\* ------------------------------------------------------------------------
\* One flow and a guest that sends what it likes, a byte or two at a time
\* ------------------------------------------------------------------------

\* G, E, T, P, SP, 0x16, 0x03, 0x01 and X
GuestBytes == {71, 69, 84, 80, 32, 22, 3, 1, 88}

GuestChunks == {<<b>> : b \in GuestBytes} \cup {<<71, 69>>, <<84, 32>>, <<22, 3>>, <<85, 84>>}

InitFlow ==
    /\ NoHttp
    /\ call = Idle
    /\ NoVfs
    /\ net = NewFlow

BytesArrive ==
    /\ net.state = "open"
    /\ \E data \in GuestChunks :
           /\ Len(net.forwarded) + Len(data) <= MaxForwarded
           /\ net' = onBytes(net, data)
    /\ UNCHANGED <<httpVars, vfsVars>>

GraceExpires ==
    /\ net.state = "open"
    /\ net.verdict = "none"
    /\ net' = onGraceExpired(net)
    /\ UNCHANGED <<httpVars, vfsVars>>

ConnectionCloses ==
    /\ net.state = "open"
    /\ net' = onClose(net)
    /\ UNCHANGED <<httpVars, vfsVars>>

NextFlow ==
    \/ BytesArrive
    \/ GraceExpires
    \/ ConnectionCloses

\* the grace is bounded (5 s): its timer fires if the flow is still
\* unclassified
SpecFlow == InitFlow /\ [][NextFlow]_vars /\ WF_vars(GraceExpires)

\* ------------------------------------------------------------------------
\* The handles of one file: a caller opens /f up to MaxHandles times and
\* reads, writes, truncates and closes through the handles it holds
\* ------------------------------------------------------------------------

MaxHandles == 2

MaxContent == 3

\* flags that open an existing file and leave what it holds
KeepingFlags == {"r+", "a"}

\* the handle takes the call if the file stays within the bounds
HandleTakes(op, h, input, done) ==
    /\ \A e \in 1..Len(done.backend.entries) :
           Len(done.backend.entries[e].content) <= MaxContent
    /\ backend' = done.backend
    /\ call' = BackendCall(op, [input EXCEPT !.handle = h], done)
    /\ UNCHANGED <<options, rng, hooks, vfs, events, tasks, net>>

\* what the caller passes to a method of a handle of the backend
OnHandleInput(data, length, position) ==
    [handle |-> 0, data |-> data, length |-> length, position |-> position]

InitHandles ==
    /\ NoHttp
    /\ call = Idle
    /\ backend = Populated
    /\ vfs = [created |-> FALSE]
    /\ events = <<>>
    /\ tasks = <<>>
    /\ NoNet

FileOpen ==
    /\ Len(backend.handles) < MaxHandles
    /\ \E flags \in KeepingFlags :
           /\ backend' = openSync(backend, StrF, flags).backend
           /\ call' = BackendCall("open", [path |-> StrF, flags |-> flags],
                                  openSync(backend, StrF, flags))
    /\ UNCHANGED <<options, rng, hooks, vfs, events, tasks, net>>

FileRead ==
    \E h \in 1..Len(backend.handles) :
        HandleTakes("read", h, OnHandleInput(<<>>, 1, <<>>),
                    HandleReadSync(backend, h, 1, <<>>))

FileWrite ==
    \E h \in 1..Len(backend.handles), position \in {<<>>, <<0>>} :
        HandleTakes("write", h, OnHandleInput(StrHi, 0, position),
                    HandleWriteSync(backend, h, StrHi, position))

FileReadFile ==
    \E h \in 1..Len(backend.handles) :
        HandleTakes("readFile", h, OnHandleInput(<<>>, 0, <<>>),
                    HandleReadFileSync(backend, h))

FileWriteFile ==
    \E h \in 1..Len(backend.handles) :
        HandleTakes("writeFile", h, OnHandleInput(StrHi, 0, <<>>),
                    HandleWriteFileSync(backend, h, StrHi))

FileStat ==
    \E h \in 1..Len(backend.handles) :
        HandleTakes("stat", h, OnHandleInput(<<>>, 0, <<>>), HandleStatSync(backend, h))

FileTruncate ==
    \E h \in 1..Len(backend.handles), length \in {0, 1} :
        HandleTakes("truncate", h, OnHandleInput(<<>>, length, <<>>),
                    HandleTruncateSync(backend, h, length))

FileClose ==
    \E h \in 1..Len(backend.handles) :
        HandleTakes("close", h, OnHandleInput(<<>>, 0, <<>>), HandleCloseSync(backend, h))

\* the file is removed while handles on it are held
FileUnlink ==
    /\ backend' = unlinkSync(backend, StrF).backend
    /\ call' = BackendCall("unlink", [path |-> StrF], unlinkSync(backend, StrF))
    /\ UNCHANGED <<options, rng, hooks, vfs, events, tasks, net>>

NextHandles ==
    \/ FileOpen
    \/ FileUnlink
    \/ FileRead
    \/ FileWrite
    \/ FileReadFile
    \/ FileWriteFile
    \/ FileStat
    \/ FileTruncate
    \/ FileClose

SpecHandles == InitHandles /\ [][NextHandles]_vars

\* ------------------------------------------------------------------------
\* Write, then read, on the memory provider (a SandboxVfsProvider without
\* hooks over an InMemoryFsBackend): a caller opens a file with a creating
\* flag, writes it through the handle, closes the handle, looks at the file
\* (readdir, stat, readFile), appends to it, reads it, writes it again and
\* reads it. The calls it has made are kept in tasks, in order.
\* ------------------------------------------------------------------------

StrDG == <<47, 100, 47, 103>>  \* "/d/g"

StrGSlash == <<47, 103, 47>>  \* "/g/"

RoundTripPaths == {StrF, StrG, StrDG, StrGSlash}

CreatingFlags == {"w", "w+", "a", "a+"}

RoundTripData == {StrHi, StrX}

\* what the caller passes
RoundTripInput(path, flags, data) ==
    [path |-> path, newPath |-> <<>>, flags |-> flags, data |-> data, length |-> 0]

\* the k-th call of the caller: the sync form of a method of the provider, on
\* the path of the first call
NextCall(k, method, data) ==
    /\ Len(tasks) = k - 1
    /\ k > 1 => \A j \in 1..3 : j < k => ~tasks[j].threw
    /\ Calls(NewTask("provider", method, TRUE, 0,
                     RoundTripInput(IF k = 1 THEN <<>> ELSE tasks[1].input.path, "", data)))

InitRoundTrip ==
    /\ NoHttp
    /\ call = Idle
    /\ backend \in {NewBackend, Populated}
    /\ vfs = NewProvider("absent", "absent")
    /\ events = <<>>
    /\ tasks = <<>>
    /\ NoNet

OpensFile ==
    /\ Len(tasks) = 0
    /\ \E path \in RoundTripPaths, flags \in CreatingFlags :
           Calls(NewTask("provider", "open", TRUE, 0, RoundTripInput(path, flags, <<>>)))

WritesHandle ==
    /\ Len(tasks) = 1
    /\ ~tasks[1].threw
    /\ \E data \in RoundTripData :
           Calls(NewTask("handle", "writeFile", TRUE, tasks[1].value[2].handle,
                         RoundTripInput(<<>>, "", data)))

ClosesHandle ==
    /\ Len(tasks) = 2
    /\ Calls(NewTask("handle", "close", TRUE, tasks[1].value[2].handle,
                     RoundTripInput(<<>>, "", <<>>)))

ListsParent ==
    /\ Len(tasks) = 3
    /\ Calls(NewTask("provider", "readdir", TRUE, 0,
                     RoundTripInput(Dirname(tasks[1].input.path), "", <<>>)))

StatsFile == NextCall(5, "stat", <<>>)

ReadsFile == NextCall(6, "readFile", <<>>)

AppendsFile == \E d2 \in RoundTripData : NextCall(7, "appendFile", d2)

ReadsAppended == NextCall(8, "readFile", <<>>)

WritesFile == \E d3 \in RoundTripData : NextCall(9, "writeFile", d3)

ReadsWritten == NextCall(10, "readFile", <<>>)

NextRoundTrip ==
    \/ OpensFile
    \/ WritesHandle
    \/ ClosesHandle
    \/ ListsParent
    \/ StatsFile
    \/ ReadsFile
    \/ AppendsFile
    \/ ReadsAppended
    \/ WritesFile
    \/ ReadsWritten

SpecRoundTrip == InitRoundTrip /\ [][NextRoundTrip]_vars

\* ------------------------------------------------------------------------
\* The backend over paths three levels deep: every method that takes a path,
\* those that only look (stat, readdir) and truncate included
\* ------------------------------------------------------------------------

StrABC == <<47, 97, 47, 98, 47, 99>>  \* "/a/b/c"

DeepPaths == {StrRoot, StrA, StrAB, StrABC}

DeepOpen ==
    \E path \in DeepPaths, flags \in {"r", "w", "x"} :
        Takes("open", [path |-> path, flags |-> flags], openSync(backend, path, flags))

DeepMkdir ==
    \E path \in DeepPaths, recursive \in BOOLEAN :
        Takes("mkdir", [path |-> path, recursive |-> recursive],
              mkdirSync(backend, path, recursive))

DeepRmdir ==
    \E path \in DeepPaths :
        Takes("rmdir", [path |-> path], rmdirSync(backend, path))

DeepUnlink ==
    \E path \in DeepPaths :
        Takes("unlink", [path |-> path], unlinkSync(backend, path))

DeepRename ==
    \E oldPath \in DeepPaths, newPath \in DeepPaths :
        Takes("rename", [path |-> oldPath, newPath |-> newPath],
              renameSync(backend, oldPath, newPath))

DeepTruncate ==
    \E path \in DeepPaths, length \in {0, 1} :
        Takes("truncate", [path |-> path, length |-> length],
              truncateSync(backend, path, length))

DeepStat ==
    \E path \in DeepPaths :
        Takes("stat", [path |-> path], statSync(backend, path))

DeepReaddir ==
    \E path \in DeepPaths :
        Takes("readdir", [path |-> path], readdirSync(backend, path))

NextDeep ==
    \/ DeepOpen
    \/ DeepMkdir
    \/ DeepRmdir
    \/ DeepUnlink
    \/ DeepRename
    \/ DeepTruncate
    \/ DeepStat
    \/ DeepReaddir

SpecDeep == InitBackend /\ [][NextDeep]_vars


\* ------------------------------------------------------------------------
\* Append handles on one file: nothing but handles opened with `a` or `a+`
\* on /f, and writes through them that name no position
\* ------------------------------------------------------------------------

MaxAppended == 5

AppendingFlags == {"a", "a+"}

AppendData == {StrHi, StrX}

\* a method of an append handle runs, the file staying within MaxAppended
AppendTakes(op, h, data, done) ==
    /\ \A e \in 1..Len(done.backend.entries) :
           Len(done.backend.entries[e].content) <= MaxAppended
    /\ backend' = done.backend
    /\ call' = BackendCall(op, [OnHandleInput(data, 0, <<>>) EXCEPT !.handle = h], done)
    /\ UNCHANGED <<options, rng, hooks, vfs, events, tasks, net>>

InitAppend ==
    /\ NoHttp
    /\ call = Idle
    /\ backend \in {NewBackend, Populated}
    /\ vfs = [created |-> FALSE]
    /\ events = <<>>
    /\ tasks = <<>>
    /\ NoNet

OpensAppending ==
    /\ Len(backend.handles) < MaxHandles
    /\ \E flags \in AppendingFlags :
           /\ backend' = openSync(backend, StrF, flags).backend
           /\ call' = BackendCall("open", [path |-> StrF, flags |-> flags],
                                  openSync(backend, StrF, flags))
    /\ UNCHANGED <<options, rng, hooks, vfs, events, tasks, net>>

WritesAppending ==
    \E h \in 1..Len(backend.handles), data \in AppendData :
        AppendTakes("write", h, data, HandleWriteSync(backend, h, data, <<>>))

WritesFileAppending ==
    \E h \in 1..Len(backend.handles), data \in AppendData :
        AppendTakes("writeFile", h, data, HandleWriteFileSync(backend, h, data))

NextAppend ==
    \/ OpensAppending
    \/ WritesAppending
    \/ WritesFileAppending

SpecAppend == InitAppend /\ [][NextAppend]_vars


\* ------------------------------------------------------------------------
\* Handles of every access mode on one file: /f is opened with `r`, `w` or
\* `a` and read, written and truncated through the handles
\* ------------------------------------------------------------------------

ModeFlags == {"r", "w", "a"}

ModeOpen ==
    /\ Len(backend.handles) < MaxHandles
    /\ \E flags \in ModeFlags :
           /\ backend' = openSync(backend, StrF, flags).backend
           /\ call' = BackendCall("open", [path |-> StrF, flags |-> flags],
                                  openSync(backend, StrF, flags))
    /\ UNCHANGED <<options, rng, hooks, vfs, events, tasks, net>>

NextModes ==
    \/ ModeOpen
    \/ FileRead
    \/ FileWrite
    \/ FileReadFile
    \/ FileWriteFile
    \/ FileTruncate
    \/ FileClose

SpecModes == InitHandles /\ [][NextModes]_vars


\* ------------------------------------------------------------------------
\* onRequestHead over objects: the request objects and header maps are cells
\* of a heap, a request object holds a reference to its header map, and an
\* assignment to a property changes the cell it is made on
\* ------------------------------------------------------------------------

NoObject ==
    [method |-> "", url |-> <<>>, headers |-> "none", body |-> "null",
     requestForBodyHook |-> NullHead, attached |-> FALSE]

NoHeadObject == [isNull |-> TRUE, method |-> "", url |-> <<>>, headers |-> "none", body |-> "null"]

\* the request object whose header map is the cell headersRef
ObjectOf(request, headersRef) ==
    [method |-> request.method, url |-> request.url, headers |-> headersRef,
     body |-> request.body, requestForBodyHook |-> request.requestForBodyHook,
     attached |-> FALSE]

\* the request that the object in cell ref stands for
Deref(heap, ref) ==
    [method |-> heap[ref].method, url |-> heap[ref].url,
     headers |-> heap[heap[ref].headers], body |-> heap[ref].body,
     requestForBodyHook |-> heap[ref].requestForBodyHook]

\* the heap when the user hook has returned: the request given to
\* onRequestHead and, if the hook returned one, the request it returned, each
\* with a header map of its own
HeapAfterHook(request, hook) ==
    [request        |-> ObjectOf(request, "requestHeaders"),
     requestHeaders |-> request.headers,
     updated        |-> IF hook.kind = "updated"
                        THEN ObjectOf(hook.request, "updatedHeaders") ELSE NoObject,
     updatedHeaders |-> IF hook.kind = "updated" THEN hook.request.headers ELSE <<>>,
     none           |-> <<>>,
     forBodyHook    |-> NoHeadObject,
     headersCopy    |-> <<>>,
     substituted    |-> NoObject,
     out            |-> NoObject]

\* the loop `for (const [headerName, value] of Object.secrets(headers))`, each
\* turn ending in `headers[headerName] = updated` on the map in cell ref; a
\* throw leaves the map as the turns before it made it
RECURSIVE WriteHeadersFrom(_, _, _, _, _)
WriteHeadersFrom(heap, ref, hostname, secrets, h) ==
    IF h > Len(heap[ref]) THEN [heap |-> heap, outcome |-> Return(ref)]
    ELSE With(Then(replaceSecretPlaceholdersInString(heap[ref][h].value, hostname, secrets),
                   LAMBDA plain :
                       replaceBasicAuthSecretPlaceholders(heap[ref][h].name, plain,
                                                          hostname, secrets)),
              LAMBDA updated :
        IF updated.threw THEN [heap |-> heap, outcome |-> updated]
        ELSE WriteHeadersFrom([heap EXCEPT ![ref][h].value = updated.value],
                              ref, hostname, secrets, h + 1))

\* a substitution that writes into the header map it was given
ReplaceHeadersInPlace(heap, ref, hostname, secrets) ==
    IF Len(secrets) = 0 THEN [heap |-> heap, outcome |-> Return(ref)]
    ELSE WriteHeadersFrom(heap, ref, hostname, secrets, 1)

\* replaceSecretPlaceholdersInHeaders on the heap: without secrets the map
\* given is returned; otherwise `{ ...request.headers }` is a new map, the
\* loop writes into it and it is returned
ReplaceHeadersOnHeap(heap, ref, hostname, secrets) ==
    IF Len(secrets) = 0 THEN [heap |-> heap, outcome |-> Return(ref)]
    ELSE WriteHeadersFrom([heap EXCEPT !.headersCopy = heap[ref]], "headersCopy",
                          hostname, secrets, 1)

\* applySecretsToRequest on the heap: `{ ...request, url, headers }` is a new
\* object
ApplySecretsOnHeap(heap, next, secretEntries, replaceSecretsInQuery) ==
    With(getHostname(Deref(heap, next)), LAMBDA hostname :
    With(assertSecretValuesAllowedForHost(
             Deref(heap, next), hostname, secretEntries, replaceSecretsInQuery),
         LAMBDA checked :
        IF checked.threw THEN [heap |-> heap, outcome |-> checked]
        ELSE With(ReplaceHeadersOnHeap(heap, heap[next].headers, hostname, secretEntries),
                  LAMBDA headers :
            IF headers.outcome.threw THEN headers
            ELSE With(replaceSecretPlaceholdersInUrlParameters(
                          heap[next].url, hostname, secretEntries, replaceSecretsInQuery),
                      LAMBDA url :
                IF url.threw THEN [heap |-> headers.heap, outcome |-> url]
                ELSE [heap |-> [headers.heap EXCEPT
                                   !.substituted = [heap[next] EXCEPT
                                                       !.url = url.value,
                                                       !.headers = headers.outcome.value]],
                      outcome |-> Return("substituted")]))))

\* `requestForBodyHook = options.onRequest ? { method, url, headers, body: null }
\* : null`: the object refers to the header map of nextRequest
KeepHead(heap, next, opts) ==
    IF opts.has.onRequest
    THEN [heap EXCEPT !.forBodyHook =
             [isNull |-> FALSE, method |-> heap[next].method, url |-> heap[next].url,
              headers |-> heap[next].headers, body |-> "null"]]
    ELSE heap

\* `out = { ...nextRequest, url, headers }` and, if a head was kept and out
\* has none, `out.requestForBodyHook = requestForBodyHook`
OutOnHeap(heap, next) ==
    [heap EXCEPT !.out = [heap[next] EXCEPT
                             !.url = heap.substituted.url,
                             !.headers = heap.substituted.headers,
                             !.attached = /\ ~heap.forBodyHook.isNull
                                          /\ heap[next].requestForBodyHook.isNull]]

\* the heap when onRequestHead is over
HeapAfterHead(request, hook, opts, created) ==
    IF hook.kind = "threw" THEN HeapAfterHook(request, hook)
    ELSE With(IF hook.kind = "updated" THEN "updated" ELSE "request", LAMBDA next :
         With(ApplySecretsOnHeap(KeepHead(HeapAfterHook(request, hook), next, opts), next,
                                 created.secretEntries,
                                 Coalesce(opts.replaceSecretsInQuery, FALSE)),
              LAMBDA applied :
                  IF applied.outcome.threw THEN applied.heap
                  ELSE OutOnHeap(applied.heap, next)))

\* requests with two headers, each holding a placeholder or a value
TwoHeaderRequests(secrets) ==
    {Request(StrHttps \o h \o StrPath, <<Header(HdrXLeak, p), Header(HdrAuthorization, q)>>) :
         h \in UrlHosts, p \in Pieces(secrets) \ {<<>>}, q \in Pieces(secrets) \ {<<>>}}

\* onRequestHead is called and the heap it leaves is kept with its outcome
HeadOnObjects ==
    /\ hooks.created
    /\ call.op = "none"
    /\ \E request \in Requests(hooks.secretEntries) \cup TwoHeaderRequests(hooks.secretEntries) :
       \E hook \in UserHook(options.has.onRequestHead, request, hooks.secretEntries) :
           call' = onRequestHead(request, hook, options, hooks)
                       @@ [before |-> HeapAfterHook(request, hook),
                           heap   |-> HeapAfterHead(request, hook, options, hooks)]
    /\ hooks' = ClosureAfter(hooks, call')
    /\ UNCHANGED <<options, rng>>
    /\ UNCHANGED <<vfsVars, netVars>>

NextObjects == CreateHttpHooks \/ HeadOnObjects \/ Respond

SpecObjects == Init /\ [][NextObjects]_vars

\* ------------------------------------------------------------------------
\* Properties: vocabulary
\* ------------------------------------------------------------------------

\* h equals p with each "*" replaced by some string; letters match in either
\* case
RECURSIVE GlobMatches(_, _)
GlobMatches(h, p) ==
    IF p = <<>> THEN h = <<>>
    ELSE IF Head(p) = 42
         THEN \E k \in 0..Len(h) : GlobMatches(SubSeq(h, k + 1, Len(h)), Tail(p))
    ELSE /\ h # <<>>
         /\ LowerChar(Head(h)) = LowerChar(Head(p))
         /\ GlobMatches(Tail(h), Tail(p))

\* the host name matches one of the (non-empty) patterns
HostAllowed(hostname, patterns) ==
    \E i \in 1..Len(patterns) : patterns[i] # <<>> /\ GlobMatches(hostname, patterns[i])

Entries == {hooks.secretEntries[i] : i \in 1..Len(hooks.secretEntries)}

QueryOn == options.replaceSecretsInQuery = "true"

IsHttpCall == call.op \in {"onRequestHead", "onRequest"}

\* the user hook, if any, has returned
HookRan == IsHttpCall /\ call.outcome # "hookThrew"

Returned == IsHttpCall /\ call.outcome = "returned"

\* the call failed with HttpRequestBlockedError and returned no request
Blocked ==
    /\ IsHttpCall
    /\ call.outcome = "threw"
    /\ call.error.kind = "HttpRequestBlockedError"
    /\ call.result = NoRequest

HostnameOf(request) == ParseUrl(request.url).hostname

\* a credential header: Authorization or Proxy-Authorization, in any case
IsCredential(header) ==
    ToLowerCase(header.name) \in {StrAuthorization, StrProxyAuthorization}

\* where the token of a value `Basic <b64>` lies: "Basic" in any case, white
\* space, one run of other characters (first..last), perhaps white space after
\* it; <<0, 0>> if the value is not of that form
BasicSpan(v) ==
    LET black == {i \in 6..Len(v) : ~IsSpace(v[i])}
        first == CHOOSE i \in black : \A j \in black : i <= j
        last  == CHOOSE i \in black : \A j \in black : j <= i
    IN IF /\ Len(v) >= 7
          /\ ToLowerCase(SubSeq(v, 1, 5)) = StrBasic
          /\ black # {}
          /\ first > 6
          /\ black = first..last
       THEN <<first, last>>
       ELSE <<0, 0>>

BasicToken(v) == SubSeq(v, BasicSpan(v)[1], BasicSpan(v)[2])

\* the decoded token of a Basic credential header; <<>> for any other header
BasicTokenText(header) ==
    IF IsCredential(header) /\ BasicSpan(header.value) # <<0, 0>>
    THEN Utf8Decode(Base64Decode(BasicToken(header.value)))
    ELSE <<>>

\* text occurs in the header, literally or inside its decoded Basic token
InHeader(header, text) ==
    \/ Includes(header.value, text)
    \/ (BasicTokenText(header) # <<>> /\ Includes(BasicTokenText(header), text))

\* text occurs in a header of the request
InHeaders(request, text) ==
    \E h \in 1..Len(request.headers) : InHeader(request.headers[h], text)

\* text occurs literally in a header value of the request
LiterallyInHeaders(request, text) ==
    \E h \in 1..Len(request.headers) : Includes(request.headers[h].value, text)

\* text occurs in the name or the value of a query parameter of the request
InQuery(request, text) ==
    LET params == SearchParams(ParseUrl(request.url).search)
    IN \E k \in 1..Len(params) :
           Includes(params[k][1], text) \/ Includes(params[k][2], text)

\* part occurs in text at position i
OccursAt(text, i, part) ==
    /\ (i + Len(part)) - 1 <= Len(text)
    /\ SubSeq(text, i, (i + Len(part)) - 1) = part

\* the positions of text at which a placeholder of the secrets begins
PlaceholderStarts(text) ==
    {i \in 1..Len(text) :
        /\ text[i] = PlaceholderPrefix[1]
        /\ \E S \in Entries : OccursAt(text, i, S.placeholder)}

PlaceholderFree(text) == PlaceholderStarts(text) = {}

\* text with every placeholder in it replaced, all at once, by the value of
\* its secret
SubstituteAll(text) ==
    LET starts == PlaceholderStarts(text)
        n      == Cardinality(starts)
        Nth(k) == CHOOSE i \in starts : Cardinality({j \in starts : j <= i}) = k
        At(i)  == CHOOSE S \in Entries : OccursAt(text, i, S.placeholder)
        EndOf(k) == IF k = 0 THEN 0 ELSE (Nth(k) + Len(At(Nth(k)).placeholder)) - 1
    IN IF n = 0 THEN text
       ELSE Concat([k \in 1..((2 * n) + 1) |->
                IF k % 2 = 0 THEN At(Nth(k \div 2)).value
                ELSE SubSeq(text, EndOf((k - 1) \div 2) + 1,
                            IF k = (2 * n) + 1 THEN Len(text) ELSE Nth((k + 1) \div 2) - 1)])

\* the header as it stands once the placeholders that occur literally in its
\* value are replaced
AfterLiteral(header) == [name |-> header.name, value |-> SubstituteAll(header.value)]

\* the header value substitution is to produce: the literal placeholders
\* replaced and then, in a Basic credential header, the token decoded, the
\* placeholders in it replaced and the result encoded again
ExpectedValue(header) ==
    LET p  == AfterLiteral(header)
        d  == BasicTokenText(p)
        d2 == SubstituteAll(d)
    IN IF d2 = d THEN p.value
       ELSE SubSeq(p.value, 1, BasicSpan(p.value)[1] - 1)
            \o Base64Encode(Utf8Encode(d2))
            \o SubSeq(p.value, BasicSpan(p.value)[2] + 1, Len(p.value))

\* substitution forms no placeholder of its own in the header
FormsNoPlaceholder(header) ==
    /\ PlaceholderFree(SubstituteAll(header.value))
    /\ PlaceholderFree(SubstituteAll(BasicTokenText(AfterLiteral(header))))

\* the request the secrets are applied to, according to the user hook alone
Effective == IF call.userHook = "updated" THEN call.hookReturned ELSE call.request

\* ------------------------------------------------------------------------
\* Properties of onRequestHead and onRequest (Spec)
\* ------------------------------------------------------------------------

\* C1 as stated: a returned request holds the (non-empty) value of a secret
\* (in a header, literally or inside a decoded Basic token, or in the query
\* when replaceSecretsInQuery is on) only if its host name matches a pattern
\* of that secret
C1_Stated ==
    Returned =>
        \A S \in Entries :
            (/\ S.value # <<>>
             /\ \/ InHeaders(call.result, S.value)
                \/ (QueryOn /\ InQuery(call.result, S.value)))
                => HostAllowed(HostnameOf(call.result), S.hosts)

\* C1 amended: if the non-empty value of a secret occurs in the request as the
\* user hook left it (in a header, literally or inside a decoded Basic token,
\* or in the query when replaceSecretsInQuery is on) and the request is
\* returned, then the host name of the returned request matches a pattern of
\* that secret; so a returned request holds such a value for a host that does
\* not match only where substitution has put it
C1_ValuesPresentAreAllowed ==
    Returned =>
        \A S \in Entries :
            /\ (/\ S.value # <<>>
                /\ \/ InHeaders(call.hooked, S.value)
                   \/ (QueryOn /\ InQuery(call.hooked, S.value)))
                   => HostAllowed(HostnameOf(call.result), S.hosts)
            /\ (/\ S.value # <<>>
                /\ \/ InHeaders(call.result, S.value)
                   \/ (QueryOn /\ InQuery(call.result, S.value))
                /\ ~HostAllowed(HostnameOf(call.result), S.hosts))
                   => (call.result.headers # call.hooked.headers
                       \/ call.result.url # call.hooked.url)

\* a request is returned that carried the value of a secret inside a Basic
\* token, to a host of that secret
C1_Witness ==
    /\ Returned
    /\ \E S \in Entries :
           /\ S.value # <<>>
           /\ ~LiterallyInHeaders(call.hooked, S.value)
           /\ InHeaders(call.hooked, S.value)
           /\ HostAllowed(HostnameOf(call.result), S.hosts)

\* C2: if, after the user hook, a header holds the non-empty value of a secret
\* (literally or inside a decoded Basic token of a credential header) and the
\* host name of the request matches no pattern of that secret, the call fails
\* with HttpRequestBlockedError and returns no request
C2_SmugglingBlocked ==
    (/\ HookRan
     /\ \E S \in Entries :
            /\ S.value # <<>>
            /\ InHeaders(call.hooked, S.value)
            /\ ~HostAllowed(HostnameOf(call.hooked), S.hosts))
    => Blocked

\* a call is blocked for the value of a secret carried inside a Basic token to
\* a host that is not the secret's
C2_Witness ==
    /\ Blocked
    /\ \E S \in Entries :
           /\ S.value # <<>>
           /\ call.error.secret = S.name
           /\ ~LiterallyInHeaders(call.hooked, S.value)
           /\ InHeaders(call.hooked, S.value)
           /\ ~HostAllowed(HostnameOf(call.hooked), S.hosts)

\* C3 as stated: if the placeholder of a secret occurs in a header value, or
\* in the decoded token of a Basic credential header, and the host name
\* matches no pattern of the secret, the call fails with
\* HttpRequestBlockedError
C3_Stated ==
    (/\ HookRan
     /\ \E S \in Entries :
            /\ InHeaders(call.hooked, S.placeholder)
            /\ ~HostAllowed(HostnameOf(call.hooked), S.hosts))
    => Blocked

\* C3 amended: the call fails with HttpRequestBlockedError if the host name
\* matches no pattern of a secret whose placeholder occurs literally in a
\* header value, or in the decoded token of a Basic credential header as that
\* header stands once its literal placeholders are replaced (and that
\* replacement formed no placeholder); so no placeholder is replaced by the
\* value of its secret for a host that does not match
C3_PlaceholderGated ==
    (/\ HookRan
     /\ \E S \in Entries :
            /\ ~HostAllowed(HostnameOf(call.hooked), S.hosts)
            /\ \E h \in 1..Len(call.hooked.headers) :
                   \/ Includes(call.hooked.headers[h].value, S.placeholder)
                   \/ /\ PlaceholderFree(AfterLiteral(call.hooked.headers[h]).value)
                      /\ Includes(BasicTokenText(AfterLiteral(call.hooked.headers[h])),
                                  S.placeholder))
    => Blocked

\* a call is blocked for a placeholder inside a Basic token, sent to a host
\* that is not the secret's
C3_Witness ==
    /\ Blocked
    /\ \E S \in Entries :
           /\ call.error.secret = S.name
           /\ ~LiterallyInHeaders(call.hooked, S.placeholder)
           /\ InHeaders(call.hooked, S.placeholder)
           /\ \A T \in Entries : T.value # <<>> => ~InHeaders(call.hooked, T.value)

\* the host name matches the patterns of every secret whose placeholder the
\* request holds
AllPlaceholdersAllowed ==
    \A S \in Entries :
        InHeaders(call.hooked, S.placeholder)
            => HostAllowed(HostnameOf(call.hooked), S.hosts)

\* C4 as stated: when the host name matches the patterns of every secret whose
\* placeholder the request holds, the request onRequestHead returns holds no
\* placeholder of a secret in a header value (literally or inside a Basic
\* token)
C4_Stated ==
    (call.op = "onRequestHead" /\ Returned /\ AllPlaceholdersAllowed)
    => \A S \in Entries : ~InHeaders(call.result, S.placeholder)

\* C4 amended: when the host name matches the patterns of every secret whose
\* placeholder the request holds, every header value onRequestHead returns is
\* the value with each placeholder in it replaced by the value of its secret
\* and then, in a Basic credential header, each placeholder in the decoded
\* token replaced and the token encoded again, and it holds no placeholder -
\* provided the replacement itself forms no placeholder out of a value and the
\* text around it
C4_AllReplaced ==
    (call.op = "onRequestHead" /\ Returned /\ AllPlaceholdersAllowed)
    => /\ Len(call.result.headers) = Len(call.hooked.headers)
       /\ \A h \in 1..Len(call.hooked.headers) :
              FormsNoPlaceholder(call.hooked.headers[h])
                  => /\ call.result.headers[h].name = call.hooked.headers[h].name
                     /\ call.result.headers[h].value = ExpectedValue(call.hooked.headers[h])
                     /\ PlaceholderFree(call.result.headers[h].value)

\* onRequestHead returns a request in which a placeholder inside a Basic token
\* was replaced by the non-empty value of its secret
C4_Witness ==
    /\ call.op = "onRequestHead"
    /\ Returned
    /\ AllPlaceholdersAllowed
    /\ \E h \in 1..Len(call.hooked.headers) :
           /\ FormsNoPlaceholder(call.hooked.headers[h])
           /\ \E S \in Entries :
                  /\ S.value # <<>>
                  /\ Includes(BasicTokenText(call.hooked.headers[h]), S.placeholder)
                  /\ Includes(BasicTokenText(call.result.headers[h]), S.value)
                  /\ ~Includes(BasicTokenText(call.result.headers[h]), S.placeholder)

\* C10: in onRequestHead the user's hook, when there is one, runs first; the
\* value check and the substitution run after it on the request it returned
\* (the original request if it returned nothing): a request whose host name,
\* after the hook, matches no pattern of a secret whose placeholder or value
\* its headers hold is blocked, the error names that host, and a returned
\* request goes to that host
C10_HookFirst ==
    (call.op = "onRequestHead" /\ call.userHook # "absent")
    => /\ call.trace[1] = "options.onRequestHead"
       /\ call.outcome = "hookThrew" => Len(call.trace) = 1
       /\ call.outcome # "hookThrew" =>
              /\ Len(call.trace) > 1
              /\ call.hooked = Effective
              /\ (\E S \in Entries :
                      /\ ~HostAllowed(HostnameOf(Effective), S.hosts)
                      /\ \/ LiterallyInHeaders(Effective, S.placeholder)
                         \/ (S.value # <<>> /\ InHeaders(Effective, S.value)))
                     => Blocked
              /\ Blocked =>
                     call.error.host = IF HostnameOf(Effective) = <<>> THEN StrUnknown
                                       ELSE HostnameOf(Effective)
              /\ Returned => HostnameOf(call.result) = HostnameOf(Effective)

\* the user hook pointed a request holding a placeholder away from a host of
\* its secret, and the request was blocked
C10_Witness ==
    /\ call.op = "onRequestHead"
    /\ call.userHook = "updated"
    /\ Blocked
    /\ \E S \in Entries :
           /\ LiterallyInHeaders(call.request, S.placeholder)
           /\ HostAllowed(HostnameOf(call.request), S.hosts)
           /\ ~HostAllowed(HostnameOf(call.hookReturned), S.hosts)
           /\ call.error.secret = S.name

\* C11: in onRequest the user's buffered hook runs first, on the request as
\* onRequest was given it (no placeholder replaced); the value check and the
\* substitution run after it on what it returned (the given request if it
\* returned nothing), so a request whose host name after the hook matches no
\* pattern of a secret whose placeholder or value its headers hold is blocked,
\* the error names that host, and a returned request goes to that host
C11_BufferedHookFirst ==
    call.op = "onRequest" =>
        /\ call.userHook # "absent"
        /\ call.trace[1] = "options.onRequest"
        /\ call.hookArg = call.request
        /\ call.outcome = "hookThrew" => Len(call.trace) = 1
        /\ call.outcome # "hookThrew" =>
               /\ Len(call.trace) > 1
               /\ \A k \in 2..Len(call.trace) : call.trace[k] # "options.onRequest"
               /\ call.hooked = Effective
               /\ (\E S \in Entries :
                       /\ ~HostAllowed(HostnameOf(Effective), S.hosts)
                       /\ \/ LiterallyInHeaders(Effective, S.placeholder)
                          \/ (S.value # <<>> /\ InHeaders(Effective, S.value)))
                      => Blocked
               /\ Blocked =>
                      call.error.host = IF HostnameOf(Effective) = <<>> THEN StrUnknown
                                        ELSE HostnameOf(Effective)
               /\ Returned => HostnameOf(call.result) = HostnameOf(Effective)

\* the buffered hook was handed a request still holding a placeholder and
\* pointed it to a host of the secret, where the placeholder was replaced
C11_Witness ==
    /\ call.op = "onRequest"
    /\ call.userHook = "updated"
    /\ Returned
    /\ \E S \in Entries :
           /\ S.value # <<>>
           /\ LiterallyInHeaders(call.hookArg, S.placeholder)
           /\ ~HostAllowed(HostnameOf(call.request), S.hosts)
           /\ HostAllowed(HostnameOf(call.hookReturned), S.hosts)
           /\ LiterallyInHeaders(call.hookReturned, S.placeholder)
           /\ LiterallyInHeaders(call.result, S.value)
           /\ ~LiterallyInHeaders(call.result, S.placeholder)

\* the last call applySecretsToRequest made in this call
LastStep == call.trace[Len(call.trace)]

\* C13: with replaceSecretsInQuery off, a returned request has the URL the
\* request had after the user hook, character for character, and a request is
\* blocked only over its headers: never in the query stage, in the value
\* check only for a secret whose value a header holds, and never if it has no
\* header at all. Whatever the flag, a header holding the value or the
\* placeholder of a secret that the host does not match blocks the request.
C13_QueryUntouchedWhenOff ==
    HookRan =>
        /\ ~QueryOn =>
               /\ Returned => call.result.url = call.hooked.url
               /\ call.hooked.headers = <<>> => Returned
               /\ Blocked =>
                      /\ LastStep # "replaceSecretPlaceholdersInUrlParameters"
                      /\ LastStep = "assertSecretValuesAllowedForHost" =>
                             \E S \in Entries :
                                 /\ S.name = call.error.secret
                                 /\ S.value # <<>>
                                 /\ InHeaders(call.hooked, S.value)
                                 /\ ~HostAllowed(HostnameOf(call.hooked), S.hosts)
        /\ (\E S \in Entries :
                /\ ~HostAllowed(HostnameOf(call.hooked), S.hosts)
                /\ \/ LiterallyInHeaders(call.hooked, S.placeholder)
                   \/ (S.value # <<>> /\ InHeaders(call.hooked, S.value)))
               => Blocked

\* with the flag off, a request whose query holds the placeholder of a secret
\* and goes to a host that is not the secret's is returned as it was
C13_Witness ==
    /\ HookRan
    /\ ~QueryOn
    /\ Returned
    /\ call.result.url = call.hooked.url
    /\ \E S \in Entries :
           /\ InQuery(call.hooked, S.placeholder)
           /\ ~HostAllowed(HostnameOf(call.hooked), S.hosts)

\* the call failed: it threw or its user hook threw
Failed == IsHttpCall /\ call.outcome # "returned"

\* C15: a request that is blocked, or whose user hook throws, returns no
\* request and changes nothing of the hooks, the secrets or the
\* configuration; a request handled by the same hooks after such a failure is
\* checked and substituted as any request is: it is blocked if a header holds
\* the value or the placeholder of a secret that its host does not match, and
\* returned with every placeholder replaced otherwise
C15_FailureLeavesNoTrace ==
    /\ [](Failed => call.result = NoRequest)
    /\ [][hooks.created => (hooks' = hooks /\ rng' = rng /\ options' = options)]_vars
    /\ []((IsHttpCall /\ call.failedEarlier /\ call.outcome # "hookThrew") =>
            /\ Len(hooks.secretEntries) = Len(options.secrets)
            /\ (\E S \in Entries :
                    /\ ~HostAllowed(HostnameOf(call.hooked), S.hosts)
                    /\ \/ LiterallyInHeaders(call.hooked, S.placeholder)
                       \/ (S.value # <<>> /\ InHeaders(call.hooked, S.value)))
                   <=> Blocked
            /\ Returned =>
                   \A h \in 1..Len(call.hooked.headers) :
                       /\ call.result.headers[h].value = ExpectedValue(call.hooked.headers[h])
                       /\ PlaceholderFree(call.result.headers[h].value))

\* after a call that failed, the next request on the same hooks had its
\* placeholder replaced by the value of the secret
C15_Witness ==
    /\ IsHttpCall
    /\ call.failedEarlier
    /\ Returned
    /\ \E S \in Entries :
           /\ LiterallyInHeaders(call.hooked, S.placeholder)
           /\ LiterallyInHeaders(call.result, S.value)
           /\ ~LiterallyInHeaders(call.result, S.placeholder)

\* the header is a credential header of the form `Basic <b64>`
IsBasicCredential(header) == IsCredential(header) /\ BasicSpan(header.value) # <<0, 0>>

\* C16 as stated: a Basic credential header whose decoded token holds no
\* placeholder is returned unchanged, and a header that is no credential
\* header is returned as literal substitution leaves it, never decoded
C16_Stated ==
    Returned =>
        \A h \in 1..Len(call.hooked.headers) :
            /\ (/\ IsBasicCredential(call.hooked.headers[h])
                /\ PlaceholderFree(BasicTokenText(call.hooked.headers[h])))
                   => call.result.headers[h].value = call.hooked.headers[h].value
            /\ (/\ ~IsCredential(call.hooked.headers[h])
                /\ PlaceholderFree(SubstituteAll(call.hooked.headers[h].value)))
                   => call.result.headers[h].value
                          = SubstituteAll(call.hooked.headers[h].value)

\* C16 amended: a Basic credential header whose value holds no placeholder
\* literally and whose decoded token holds none is returned unchanged,
\* character for character; a header that is no credential header is
\* returned as literal substitution leaves it and is never decoded: what its
\* value would decode to neither blocks the request nor is replaced
C16_BasicUntouched ==
    HookRan =>
        /\ Returned =>
               \A h \in 1..Len(call.hooked.headers) :
                   /\ (/\ IsBasicCredential(call.hooked.headers[h])
                       /\ PlaceholderFree(call.hooked.headers[h].value)
                       /\ PlaceholderFree(BasicTokenText(call.hooked.headers[h])))
                          => call.result.headers[h].value = call.hooked.headers[h].value
                   /\ (/\ ~IsCredential(call.hooked.headers[h])
                       /\ PlaceholderFree(SubstituteAll(call.hooked.headers[h].value)))
                          => call.result.headers[h].value
                                 = SubstituteAll(call.hooked.headers[h].value)
        /\ (/\ call.hooked.headers # <<>>
            /\ \A h \in 1..Len(call.hooked.headers) :
                   /\ ~IsCredential(call.hooked.headers[h])
                   /\ PlaceholderFree(call.hooked.headers[h].value)
                   /\ \A S \in Entries :
                          S.value # <<>> => ~Includes(call.hooked.headers[h].value, S.value)
            /\ ParseUrl(call.hooked.url).search = <<>>)
               => (Returned /\ call.result.headers = call.hooked.headers)

\* a Basic credential header whose token is not in canonical base64 was
\* returned as it came
C16_Witness ==
    /\ Returned
    /\ \E h \in 1..Len(call.hooked.headers) :
           /\ IsBasicCredential(call.hooked.headers[h])
           /\ PlaceholderFree(call.hooked.headers[h].value)
           /\ PlaceholderFree(BasicTokenText(call.hooked.headers[h]))
           /\ Base64Encode(Utf8Encode(BasicTokenText(call.hooked.headers[h])))
                  # BasicToken(call.hooked.headers[h].value)
           /\ call.result.headers[h].value = call.hooked.headers[h].value

\* the copy of the head of a request: its method, URL and headers, no body
HeadCopy(request) ==
    [isNull |-> FALSE, method |-> request.method, url |-> request.url,
     headers |-> request.headers, body |-> "null"]

\* C12: the hooks createHttpHooks returns have an onRequest member exactly
\* when options.onRequest was given; a request onRequestHead returns has a
\* requestForBodyHook field that the request did not hold after the user hook
\* only when options.onRequest was given, and then it is the copy of the head
\* as the user hook left it
C12_OnRequestOnlyWhenGiven ==
    /\ hooks.created => (hooks.hasOnRequest <=> options.has.onRequest)
    /\ call.op = "onRequest" => options.has.onRequest
    /\ (call.op = "onRequestHead" /\ Returned) =>
           IF options.has.onRequest /\ call.hooked.requestForBodyHook.isNull
           THEN call.result.requestForBodyHook = HeadCopy(call.hooked)
           ELSE call.result.requestForBodyHook = call.hooked.requestForBodyHook

\* without options.onRequest, onRequestHead returned a request to which no
\* requestForBodyHook was attached, although a placeholder was replaced in it
C12_Witness ==
    /\ hooks.created
    /\ ~options.has.onRequest
    /\ ~hooks.hasOnRequest
    /\ call.op = "onRequestHead"
    /\ Returned
    /\ call.result.headers # call.hooked.headers
    /\ call.result.requestForBodyHook.isNull

\* ------------------------------------------------------------------------
\* Properties of createHttpHooks (SpecCreate)
\* ------------------------------------------------------------------------

StrGondolinSecret == <<71, 79, 78, 68, 79, 76, 73, 78, 95, 83, 69, 67, 82, 69, 84, 95>>  \* "GONDOLIN_SECRET_"

\* text is "GONDOLIN_SECRET_" and then the bytes in lower-case hexadecimal
IsPlaceholderOf(text, bytes) ==
    /\ Len(text) = Len(StrGondolinSecret) + (2 * Len(bytes))
    /\ SubSeq(text, 1, Len(StrGondolinSecret)) = StrGondolinSecret
    /\ \A k \in 1..Len(bytes) :
           LET hi == text[(Len(StrGondolinSecret) + (2 * k)) - 1]
               lo == text[Len(StrGondolinSecret) + (2 * k)]
           IN /\ LowerChar(hi) = hi
              /\ LowerChar(lo) = lo
              /\ HexValue(hi) < 16
              /\ HexValue(lo) < 16
              /\ (16 * HexValue(hi)) + HexValue(lo) = bytes[k]

\* C5: the env map createHttpHooks returns has one entry per configured secret
\* name; the entry is "GONDOLIN_SECRET_" and the hexadecimal of the 24 random
\* bytes drawn for the secret, it is the placeholder substitution looks for
\* and not the value of the secret, and the entries of two secrets differ
C5_EnvHoldsPlaceholders ==
    hooks.created =>
        /\ DOMAIN hooks.env = {options.secrets[i].name : i \in 1..Len(options.secrets)}
        /\ Len(hooks.secretEntries) = Len(options.secrets)
        /\ \A i \in 1..Len(options.secrets) :
               /\ Len(rng.draws[i]) = 24
               /\ IsPlaceholderOf(hooks.env[options.secrets[i].name], rng.draws[i])
               /\ hooks.env[options.secrets[i].name] = hooks.secretEntries[i].placeholder
               /\ hooks.secretEntries[i].name = options.secrets[i].name
               /\ hooks.env[options.secrets[i].name] # options.secrets[i].value
        /\ \A i, j \in 1..Len(options.secrets) :
               i # j => hooks.env[options.secrets[i].name] # hooks.env[options.secrets[j].name]

\* hooks were created for two secrets
C5_Witness ==
    /\ hooks.created
    /\ Len(options.secrets) = 2
    /\ rng.calls = 2

\* ------------------------------------------------------------------------
\* Properties of isIpAllowed (SpecAdmission)
\* ------------------------------------------------------------------------

RECURSIVE Pow2(_)
Pow2(n) == IF n = 0 THEN 1 ELSE 2 * Pow2(n - 1)

\* the upper 16 bits of an IPv4 address: every range of the list has a prefix
\* of at most 16 bits
Upper16(a, b) == (a * 256) + b

\* the IPv4 ranges of the list: <<upper 16 bits of the first address, prefix
\* length>> for 0.0.0.0/8, 10.0.0.0/8, 127.0.0.0/8, 169.254.0.0/16,
\* 172.16.0.0/12, 192.168.0.0/16, 100.64.0.0/10 and 255.0.0.0/8
InternalCidrs ==
    {<<Upper16(0, 0), 8>>, <<Upper16(10, 0), 8>>, <<Upper16(127, 0), 8>>,
     <<Upper16(169, 254), 16>>, <<Upper16(172, 16), 12>>,
     <<Upper16(192, 168), 16>>, <<Upper16(100, 64), 10>>,
     <<Upper16(255, 0), 8>>}

\* the IPv4 address of these octets lies in a range of the list
InInternalCidr(o) ==
    \E r \in InternalCidrs :
        Upper16(o[1], o[2]) \div Pow2(16 - r[2]) = r[1] \div Pow2(16 - r[2])

\* the IPv6 address of these groups is ::, ::1, in fc00::/7 or fe80::/10, or
\* the IPv4-mapped form of an IPv4 address in a range of the list
InInternalV6(g) ==
    \/ \A i \in 1..8 : g[i] = 0
    \/ ((\A i \in 1..7 : g[i] = 0) /\ g[8] = 1)
    \/ g[1] \div 512 = 64512 \div 512
    \/ g[1] \div 64 = 65152 \div 64
    \/ /\ \A i \in 1..5 : g[i] = 0
       /\ g[6] = 65535
       /\ InInternalCidr(<<g[7] \div 256, g[7] % 256, g[8] \div 256, g[8] % 256>>)

\* the address is one the list of internal ranges names
IsListedInternal(address) ==
    \/ (address.family = 4 /\ InInternalCidr(address.groups))
    \/ (address.family = 6 /\ InInternalV6(address.groups))

IsIpCall == call.op = "isIpAllowed"

BlockingOn == options.blockInternalRanges # "false"

\* the caller's isIpAllowed callback was invoked
CallbackInvoked == \E k \in 1..Len(call.trace) : call.trace[k] = "options.isIpAllowed"

\* the built-in checks deny: the address is internal and blocking is on, or
\* the allowed-host list is non-empty and the host name matches none of it
BuiltInDeny ==
    \/ (BlockingOn /\ IsListedInternal(call.address))
    \/ (hooks.allowedHosts # <<>> /\ ~HostAllowed(call.info.hostname, hooks.allowedHosts))

\* C6: when the built-in checks deny, isIpAllowed returns false whatever the
\* caller's callback would answer and does not invoke it; when they pass, the
\* result is the callback's answer (true without a callback)
C6_CallbackOnlyNarrows ==
    IsIpCall =>
        /\ BuiltInDeny => (~call.result /\ ~CallbackInvoked)
        /\ ~BuiltInDeny =>
               IF call.callback = "absent" THEN call.result /\ ~CallbackInvoked
               ELSE CallbackInvoked /\ (call.result <=> call.callback = "true")

\* the built-in checks denied a request the callback would have allowed
C6_Witness ==
    /\ IsIpCall
    /\ BuiltInDeny
    /\ call.callback = "true"
    /\ ~call.result

\* C7: with blockInternalRanges omitted or true isIpAllowed returns false for
\* every address the list of internal ranges names (IPv4, IPv6 and
\* IPv4-mapped IPv6); an IPv4 address outside the ranges is not rejected by
\* the range check, and with blockInternalRanges false no address is
C7_InternalRanges ==
    IsIpCall =>
        /\ (BlockingOn /\ IsListedInternal(call.address)) => ~call.result
        /\ (call.address.family = 4 /\ ~InInternalCidr(call.address.groups))
               => /\ call.deniedBy # "blockInternalRanges"
                  /\ (call.callback # "false"
                      /\ (hooks.allowedHosts = <<>>
                          \/ HostAllowed(call.info.hostname, hooks.allowedHosts)))
                         => call.result
        /\ ~BlockingOn
               => /\ call.deniedBy # "blockInternalRanges"
                  /\ (call.callback # "false"
                      /\ (hooks.allowedHosts = <<>>
                          \/ HostAllowed(call.info.hostname, hooks.allowedHosts)))
                         => call.result

\* with blockInternalRanges omitted, the IPv4-mapped form of 172.31.0.1 is
\* rejected by the range check
C7_Witness ==
    /\ IsIpCall
    /\ options.blockInternalRanges = "undefined"
    /\ call.address = [family |-> 6, groups |-> MappedGroups(<<172, 31, 0, 1>>)]
    /\ ~call.result
    /\ call.deniedBy = "blockInternalRanges"

\* C14: admission keeps no memory: a call of isIpAllowed changes nothing of
\* the hooks, and its result is decided by the configuration, the (host name,
\* ip) pair and the callback alone, whatever earlier calls allowed; so with
\* blockInternalRanges on, a call for a host name with an internal address is
\* refused also after calls that allowed that host name
C14_NoMemory ==
    /\ [](IsIpCall =>
            /\ (BlockingOn /\ IsListedInternal(call.address)) => ~call.result
            /\ call.result <=> (~BuiltInDeny /\ call.callback # "false"))
    /\ [][hooks.created => hooks' = hooks]_vars

\* with blockInternalRanges on, a host name that an earlier call allowed is
\* refused when it comes with an internal address
C14_Witness ==
    /\ IsIpCall
    /\ BlockingOn
    /\ call.info.hostname \in call.allowedEarlier
    /\ IsListedInternal(call.address)
    /\ ~call.result
    /\ call.deniedBy = "blockInternalRanges"

\* the patterns as configured: trimmed, the blank ones dropped
Configured(patterns) ==
    SelectSeq([i \in 1..Len(patterns) |-> Trim(patterns[i])], LAMBDA q : q # <<>>)

\* the host patterns of all secrets
RECURSIVE SecretHosts(_)
SecretHosts(secrets) ==
    IF secrets = <<>> THEN <<>> ELSE Head(secrets).hosts \o SecretHosts(Tail(secrets))

\* the call came to the host name check and passed it
PassedHostCheck == call.deniedBy \in {"none", "options.isIpAllowed"}

ReachedHostCheck == call.deniedBy # "blockInternalRanges"

\* C8 as stated: the host name check passes for every host name if the
\* allowedHosts option is empty (holds no pattern but blank ones), and
\* otherwise exactly for the host names that match one of its patterns,
\* whether or not secrets are configured
C8_Stated ==
    (IsIpCall /\ ReachedHostCheck) =>
        (PassedHostCheck <=>
            \/ Configured(options.allowedHosts) = <<>>
            \/ HostAllowed(call.info.hostname, Configured(options.allowedHosts)))

\* C8 amended: the host name check runs against the patterns of the
\* allowedHosts option together with the host patterns of every configured
\* secret (trimmed, blank ones dropped): it passes for every host name if
\* there are none, and otherwise exactly for the host names that match one of
\* them
C8_ResolvedAllowList ==
    (IsIpCall /\ ReachedHostCheck) =>
        (PassedHostCheck <=>
            \/ Configured(options.allowedHosts \o SecretHosts(options.secrets)) = <<>>
            \/ HostAllowed(call.info.hostname,
                           Configured(options.allowedHosts \o SecretHosts(options.secrets))))

\* with allowedHosts empty, a host name was denied because it matches no host
\* pattern of the configured secret
C8_Witness ==
    /\ IsIpCall
    /\ options.allowedHosts = <<>>
    /\ options.secrets # <<>>
    /\ call.deniedBy = "allowedHosts"
    /\ ~call.result

\* ------------------------------------------------------------------------
\* Properties of matchHostname (SpecMatch)
\* ------------------------------------------------------------------------

\* C9: matchHostname(h, p) holds exactly when p is not empty and the whole of
\* h equals p with each "*" replaced by some string, every other character
\* of p taken literally and letters compared without regard to case; so
\* "api.example.com" matches none of "api.example.com.evil.test",
\* "xapi.example.com" and "apiXexample.com", and the empty pattern matches
\* nothing
C9_AnchoredGlob ==
    call.op = "matchHostname" =>
        /\ call.result <=> (call.pattern # <<>> /\ GlobMatches(call.hostname, call.pattern))
        /\ (call.pattern = HostApi /\ call.hostname \in {HostLong, HostX, HostNoDot})
               => ~call.result
        /\ call.pattern = <<>> => ~call.result

\* "*.example.com" matched "WWW.Example.COM"
C9_Witness ==
    /\ call.op = "matchHostname"
    /\ call.pattern = PatStarExample
    /\ call.hostname = HostUpper
    /\ call.result

\* ------------------------------------------------------------------------
\* Properties of SpecInodes
\* ------------------------------------------------------------------------

\* the inode number of the entry that path names, 0 if it names none
InoAt(b, path) ==
    IF EntryAt(b, path) = 0 THEN 0 ELSE b.entries[EntryAt(b, path)].ino

\* the entry that a call on path acts on (a slash at the end of path is
\* passed over), 0 if there is none
EntryNamed(b, path) == EntryAt(b, StripTrailing(normalizePath(path)))

\* the entries that can be reached from the root
Reachable(b) == {e[2] : e \in entries(b)}

\* the root has inode 1
RootIsOne == InoAt(backend, StrRoot) = 1 /\ backend.entries[1].ino = 1

\* no two entries ever made hold the same inode number, the removed ones
\* included
NeverGivenTwice ==
    \A i \in 1..Len(backend.entries) : \A j \in 1..Len(backend.entries) :
        i # j => backend.entries[i].ino # backend.entries[j].ino

\* two paths from the root lead to two inode numbers
ReachableDistinct ==
    \A e1 \in entries(backend) : \A e2 \in entries(backend) :
        e1[1] # e2[1] => backend.entries[e1[2]].ino # backend.entries[e2[2]].ino

\* a call gives every entry made by it a number above all numbers given
\* before, and changes the number of no entry
FreshNumbers ==
    /\ \A i \in 1..Len(backend.entries) : backend'.entries[i].ino = backend.entries[i].ino
    /\ \A i \in (Len(backend.entries) + 1)..Len(backend'.entries) :
           \A j \in 1..(i - 1) : backend'.entries[i].ino # backend'.entries[j].ino

\* after a rename that succeeded the new path, where it names an entry, names
\* the entry that the old path named, with the number it had
RenameKeepsNumber ==
    (call'.op = "rename" /\ ~call'.threw) =>
        /\ EntryNamed(backend, call'.input.path) >= 2
        /\ EntryNamed(backend', call'.input.newPath)
               \in {0, EntryNamed(backend, call'.input.path)}

\* C20: in InMemoryFsBackend the root directory has inode 1 in every state,
\* every entry made by mkdir or open receives an inode number that no entry
\* was given before (also after unlink or rmdir), the entries reachable from
\* the root have pairwise distinct inode numbers, and an entry keeps its
\* number across rename
C20_Inodes ==
    /\ [](RootIsOne /\ NeverGivenTwice /\ ReachableDistinct)
    /\ [][FreshNumbers /\ RenameKeepsNumber]_vars

\* a rename has succeeded and moved an entry with the number it was given,
\* after an entry was removed and another was made
C20_Witness ==
    /\ call.op = "rename"
    /\ ~call.threw
    /\ Len(backend.entries) = MaxEntries
    /\ Cardinality(Reachable(backend)) = 2
    /\ InoAt(backend, normalizePath(call.input.newPath)) = MaxEntries
    /\ AllocateIno(backend) = MaxEntries + 1

\* ------------------------------------------------------------------------
\* Properties of SpecProvider
\* ------------------------------------------------------------------------

\* the method of the backend or of its handle that an event belongs to
MethodOf(e) == IF e.kind # "backend" /\ e.on = "handle" /\ e.op = "release" THEN "close" ELSE e.op

\* two events belong to the same hooked operation
SameOperation(e1, e2) ==
    e1.task = e2.task /\ e1.on = e2.on /\ MethodOf(e1) = MethodOf(e2)

Rank(kind) == IF kind = "before" THEN 1 ELSE IF kind = "backend" THEN 2 ELSE 3

\* the calls a and c were in flight at the same time
Overlapped(a, c) == a \in tasks[c].with \/ c \in tasks[a].with

\* of one operation the before hook comes first, the backend second and the
\* after hook last, each at most once
Ordered ==
    \A i \in 1..Len(events) : \A j \in (i + 1)..Len(events) :
        SameOperation(events[i], events[j]) => Rank(events[i].kind) < Rank(events[j].kind)

\* nothing of another operation lies between two events of one operation
Contiguous ==
    \A i \in 1..Len(events) : \A j \in (i + 1)..Len(events) :
        SameOperation(events[i], events[j]) =>
            \A k \in i..j : SameOperation(events[k], events[i])

\* between two events of one operation lie only events of that operation and
\* of calls that were in flight together with its call
ContiguousButOverlap ==
    \A i \in 1..Len(events) : \A j \in (i + 1)..Len(events) :
        SameOperation(events[i], events[j]) =>
            \A k \in i..j : \/ SameOperation(events[k], events[i])
                             \/ Overlapped(events[k].task, events[i].task)

\* the events of the hooked operation prim of call id
EventsOf(id, prim, kind) ==
    {i \in 1..Len(events) :
        /\ events[i].task = id /\ events[i].on = prim.on /\ events[i].kind = kind
        /\ events[i].op = IF kind = "backend" THEN prim.method ELSE prim.op}

\* the call went through: it returned, and no operation of it failed
WentThrough(t) ==
    /\ t.status = "done"
    /\ ~t.threw
    /\ t.value # <<"exists", FALSE>>

\* every hooked operation of a call that went through reached the backend
\* once, with the before hook before it and the after hook after it where
\* they are installed
Complete ==
    \A id \in 1..Len(tasks) :
        WentThrough(tasks[id]) =>
            LET script == Script(tasks[id].on, tasks[id].method, tasks[id].input)
            IN \A n \in 1..Len(script) :
                   /\ Cardinality(EventsOf(id, script[n], "backend")) = 1
                   /\ Cardinality(EventsOf(id, script[n], "before")) =
                          (IF vfs.hooks.before = "absent" THEN 0 ELSE 1)
                   /\ Cardinality(EventsOf(id, script[n], "after")) =
                          (IF vfs.hooks.after = "absent" THEN 0 ELSE 1)

\* the hooks are told `release`, never `close`, when a handle is closed
ReleaseReported ==
    /\ \A i \in 1..Len(events) : events[i].kind # "backend" => events[i].op # "close"
    /\ \A id \in 1..Len(tasks) :
           (tasks[id].on = "handle" /\ tasks[id].method = "close" /\ WentThrough(tasks[id])) =>
               \A kind \in {"before", "after"} :
                   vfs.hooks[kind] # "absent" =>
                       \E i \in 1..Len(events) :
                           events[i] = [kind |-> kind, op |-> "release", on |-> "handle",
                                        task |-> id]

\* what the hooks have pushed: `${kind}:${ctx.op}`
HookLog ==
    [i \in 1..Len(SelectSeq(events, LAMBDA e : e.kind # "backend")) |->
        <<SelectSeq(events, LAMBDA e : e.kind # "backend")[i].kind,
          SelectSeq(events, LAMBDA e : e.kind # "backend")[i].op>>]

\* the caller has made open, handle.writeFile and handle.close, in this order,
\* through a provider with both hooks, and all three went through
OpenWriteClose ==
    /\ vfs.hooks.before # "absent"
    /\ vfs.hooks.after # "absent"
    /\ Len(tasks) = 3
    /\ \A id \in 1..3 : WentThrough(tasks[id])
    /\ tasks[1].on = "provider" /\ tasks[1].method = "open"
    /\ tasks[2].on = "handle" /\ tasks[2].method = "writeFile"
    /\ tasks[3].on = "handle" /\ tasks[3].method = "close"

SixEvents ==
    <<<<"before", "open">>, <<"after", "open">>, <<"before", "writeFile">>,
      <<"after", "writeFile">>, <<"before", "release">>, <<"after", "release">>>>

\* C17 as stated: of every hooked operation the hooks and the backend see
\* before, backend, after in this order with nothing of another operation in
\* between, close is told as release, and open, handle.writeFile, handle.close
\* give exactly the six events
C17_Stated ==
    /\ Ordered
    /\ Complete
    /\ ReleaseReported
    /\ Contiguous
    /\ OpenWriteClose => HookLog = SixEvents

\* C17: of every hooked operation the hooks and the backend see before,
\* backend, after in this order, with nothing in between but the events of
\* calls in flight at the same time; close is told as release; open,
\* handle.writeFile, handle.close, each settled before the next is made, give
\* exactly the six events
C17_HookOrder ==
    /\ Ordered
    /\ Complete
    /\ ReleaseReported
    /\ ContiguousButOverlap
    /\ (OpenWriteClose /\ tasks[3].with = {}) => HookLog = SixEvents

\* open, handle.writeFile and handle.close went through one after the other
\* and the hooks have seen the six events
C17_Witness ==
    /\ OpenWriteClose
    /\ tasks[3].with = {}
    /\ \A id \in 1..3 : ~tasks[id].sync
    /\ HookLog = SixEvents
    /\ Len(events) = 9

\* the events of call id
EventsOfCall(id) == {i \in 1..Len(events) : events[i].task = id}

\* the sync calls that are over, made through a provider whose before hook
\* returns a promise
SyncCallsWithAsyncHook ==
    {id \in 1..Len(tasks) : tasks[id].sync /\ tasks[id].status = "done"
                               /\ vfs.hooks.before = "async"}

\* the call ran the before hook
RanBefore(id) == \E i \in EventsOfCall(id) : events[i].kind = "before"

\* the call did not reach the backend
BackendNotCalled(id) == \A i \in EventsOfCall(id) : events[i].kind # "backend"

ThrewAsyncHookError(t) == t.threw /\ t.error = AsyncHookError

\* a sync call made through a provider whose before hook returns a promise
\* leaves the backend as it was
SyncCallLeavesBackend ==
    (Len(tasks') > Len(tasks) /\ tasks'[Len(tasks')].sync /\ vfs.hooks.before = "async") =>
        backend' = backend

\* C18 as stated: every sync operation whose before hook returned a promise
\* throws `async hook used in sync operation` and does not reach the backend
C18_Stated ==
    \A id \in SyncCallsWithAsyncHook :
        RanBefore(id) => ThrewAsyncHookError(tasks[id]) /\ BackendNotCalled(id)

\* C18: a sync operation whose before hook returned a promise does not reach
\* the backend and throws `async hook used in sync operation`, except that
\* existsSync returns false; the sync operations that do not call the before
\* hook are readlinkSync and symlinkSync and, on a read-only backend, the
\* guarded ones, which throw ENOENT or EROFS
C18_SyncRejectsAsyncHook ==
    /\ [](\A id \in SyncCallsWithAsyncHook :
             /\ BackendNotCalled(id)
             /\ RanBefore(id) =>
                    IF tasks[id].on = "provider" /\ tasks[id].method = "exists"
                    THEN tasks[id].value = <<"exists", FALSE>>
                    ELSE ThrewAsyncHookError(tasks[id])
             /\ ~RanBefore(id) =>
                    /\ tasks[id].on = "provider"
                    /\ tasks[id].threw
                    /\ \/ tasks[id].method \in {"readlink", "symlink"}
                          /\ tasks[id].error.code \in {"ENOENT", "EROFS"}
                       \/ tasks[id].method \in ReadonlyGuarded
                          /\ backend.readonly
                          /\ tasks[id].error.code = "EROFS")
    /\ [][SyncCallLeavesBackend]_vars

\* a handle that the async open returned has been given writeFileSync: it
\* threw `async hook used in sync operation` and /f holds what it held
C18_Witness ==
    /\ vfs.hooks.before = "async"
    /\ Len(tasks) = 2
    /\ WentThrough(tasks[1]) /\ tasks[1].method = "open" /\ tasks[1].input.flags = "r"
    /\ tasks[2].on = "handle" /\ tasks[2].method = "writeFile" /\ tasks[2].sync
    /\ ThrewAsyncHookError(tasks[2])
    /\ RanBefore(2)
    /\ ContentOf(backend, 1) = StrHi

\* the calls of the guarded methods made through a provider over a read-only
\* backend
GuardedCalls ==
    {id \in 1..Len(tasks) :
        /\ backend.readonly
        /\ tasks[id].on = "provider"
        /\ tasks[id].method \in {"mkdir", "rmdir", "unlink", "rename", "truncate",
                                   "writeFile", "appendFile", "symlink"}}

\* a call of a guarded method leaves the backend as it was
GuardedCallLeavesBackend ==
    (Len(tasks') > Len(tasks) /\ Len(tasks') \in GuardedCalls') => backend' = backend

\* C19: over a read-only backend mkdir, rmdir, unlink, rename, truncate,
\* writeFile, appendFile and symlink, sync or async, fail with EROFS; no hook
\* is run and the backend is not called
C19_ReadOnlyGuard ==
    /\ [](\A id \in GuardedCalls :
             /\ tasks[id].status = "done"
             /\ tasks[id].threw
             /\ tasks[id].error.kind = "ErrnoError"
             /\ tasks[id].error.code = "EROFS"
             /\ EventsOfCall(id) = {})
    /\ [][GuardedCallLeavesBackend]_vars

\* writeFile on a file that exists, through a provider with both hooks over
\* a read-only backend, has failed with EROFS and nothing was seen
C19_Witness ==
    /\ backend.readonly
    /\ vfs.hooks.before = "sync"
    /\ vfs.hooks.after = "sync"
    /\ Len(tasks) = 1
    /\ tasks[1].method = "writeFile"
    /\ ~tasks[1].sync
    /\ tasks[1].input.path = StrF
    /\ tasks[1].error = createErrnoError("EROFS", "open", StrF)
    /\ EntryAt(backend, StrF) # 0
    /\ events = <<>>

\* ------------------------------------------------------------------------
\* Properties of SpecRouter
\* ------------------------------------------------------------------------

\* the entry that path names in the mount that serves it, 0 if there is none
RoutedEntry(mounts, path) ==
    IF resolveMount(mounts, path) = 0 THEN 0
    ELSE EntryAt(mounts[resolveMount(mounts, path)].backend,
                 relativePath(mounts, resolveMount(mounts, path), path))

\* oldPath and newPath are served by two different mounts
CrossMount(mounts, oldPath, newPath) ==
    /\ resolveMount(mounts, oldPath) # 0
    /\ resolveMount(mounts, newPath) # 0
    /\ resolveMount(mounts, oldPath) # resolveMount(mounts, newPath)

IsPrefix(s, t) == Len(s) <= Len(t) /\ s = SubSeq(t, 1, Len(s))

\* the bytes the engine has acknowledged: the guest's stream up to the
\* acknowledgement number
Acknowledged(c) == SubSeq(GuestStream, 1, SeqDiff(c.acked, SeqAdd(c.irs, 1)))

\* C22: whatever the order in which the guest's segments arrive, and however
\* often, the bytes handed to the flow layer are at every moment the
\* beginning of the in-sequence stream of the bytes acknowledged, and what
\* was handed on is only ever added to at its end
C22_InSequence ==
    /\ [](net.state # "LISTEN" => IsPrefix(net.delivered, Acknowledged(net)))
    /\ [][IsPrefix(net.delivered, net'.delivered)]_vars

\* a byte waits out of order behind a gap while earlier bytes have been
\* handed on, past the wrap of the sequence numbers
C22_Witness ==
    /\ net.state = "ESTABLISHED"
    /\ net.queue # {}
    /\ net.delivered # <<>>
    /\ net.rcvNxt < net.irs

\* ------------------------------------------------------------------------
\* Properties of SpecDns
\* ------------------------------------------------------------------------

\* no two entries of the forward map have the same hostname or the same
\* synthetic IP, and the reverse map sends each synthetic IP back to its
\* hostname and holds nothing else
Bijective ==
    /\ \A i, j \in 1..Len(net.forward) :
           (net.forward[i].name = net.forward[j].name \/ net.forward[i].ip = net.forward[j].ip)
               => i = j
    /\ \A i \in 1..Len(net.forward) : boundName(net, net.forward[i].ip) = net.forward[i].name
    /\ \A k \in 1..Len(net.reverse) : boundIp(net, net.reverse[k].name) = net.reverse[k].ip

\* a binding lasts
BindingsLast ==
    \A i \in 1..Len(net.forward) : boundIp(net', net.forward[i].name) = net.forward[i].ip

IsAddressQuery == call'.op = "query" /\ call'.qtype \in {"A", "AAAA"}

\* a hostname that has a synthetic IP is answered with it
SameAnswerAgain ==
    (IsAddressQuery /\ boundIp(net, ToLowerCase(call'.name)) # 0)
        => /\ call'.rcode = "NOERROR"
           /\ call'.answer = boundIp(net, ToLowerCase(call'.name))

\* a fresh answer is bound in both maps
AnswerIsBound ==
    (IsAddressQuery /\ call'.rcode = "NOERROR")
        => /\ call'.answer # 0
           /\ boundIp(net', ToLowerCase(call'.name)) = call'.answer
           /\ boundName(net', call'.answer) = ToLowerCase(call'.name)

\* NXDOMAIN and no binding
Refused == call'.rcode = "NXDOMAIN" /\ call'.answer = 0 /\ net' = net

Recognised(bytes) ==
    \/ \E m \in MethodTokens : StartsWith(bytes, m \o <<32>>)
    \/ StartsWith(bytes, <<22, 3, 1>>)

\* no further byte can make the first bytes recognised
Hopeless(bytes) ==
    /\ bytes # <<>>
    /\ \A m \in MethodTokens : ~StartsWith(m \o <<32>>, bytes) /\ ~StartsWith(bytes, m \o <<32>>)
    /\ ~StartsWith(<<22, 3, 1>>, bytes)
    /\ ~StartsWith(bytes, <<22, 3, 1>>)

\* a verdict, once given, stays
VerdictSticks == net.verdict # "none" => net'.verdict = net.verdict

\* the verdict fits the first bytes, and only a flow tagged plaintext-http or
\* tls is forwarded
VerdictFits ==
    /\ net.verdict = "tls" => StartsWith(net.peek, <<22, 3, 1>>)
    /\ net.verdict = "plaintext-http" => \E m \in MethodTokens : StartsWith(net.peek, m \o <<32>>)
    /\ net.verdict = "dropped" => (~Recognised(net.peek) /\ net.rst)
    /\ net.forwarded # <<>> => (net.verdict \in {"plaintext-http", "tls"} /\ Recognised(net.forwarded))
    /\ ~Recognised(net.peek) => net.forwarded = <<>>

IsDropped == net.verdict = "dropped" /\ net.rst

\* C24 as stated: a flow whose first bytes are neither is in the end marked
\* dropped and reset
C24_Stated ==
    /\ []VerdictFits
    /\ [][VerdictSticks]_vars
    /\ (Hopeless(net.peek) ~> IsDropped)

\* C24: a connection gets at most one verdict, which stays until the
\* connection closes; a flow whose first bytes are neither an HTTP method
\* token followed by a space nor a ClientHello is never forwarded, and it is
\* in the end marked dropped and reset unless the connection is closed before
\* the grace is over
C24_StickyVerdict ==
    /\ []VerdictFits
    /\ [][VerdictSticks]_vars
    /\ (Hopeless(net.peek) ~> (IsDropped \/ net.state = "closed"))

\* a flow that began with bytes of neither kind has been dropped and reset
\* and nothing of it was forwarded
C24_Witness ==
    /\ Hopeless(net.peek)
    /\ IsDropped
    /\ net.forwarded = <<>>
    /\ Len(net.peek) < GraceBytes


\* ------------------------------------------------------------------------
\* Properties of the query stage (Spec)
\* ------------------------------------------------------------------------

\* the query parameters of the request, decoded, as <<name, value>> pairs
QueryParams(request) == SearchParams(ParseUrl(request.url).search)

\* the host name of the request matches no pattern of the secret, and the
\* placeholder or the (non-empty) value of the secret occurs in the name or
\* the value of a query parameter
QueryHoldsForeign(S) ==
    /\ ~HostAllowed(HostnameOf(call.hooked), S.hosts)
    /\ \/ InQuery(call.hooked, S.placeholder)
       \/ (S.value # <<>> /\ InQuery(call.hooked, S.value))

\* C25: with replaceSecretsInQuery on, a request is blocked with
\* HttpRequestBlockedError when the placeholder or the value of a secret
\* occurs in the name or the value of a query parameter and the host name
\* matches no pattern of that secret; a returned request has as many query
\* parameters as before, and every parameter name and value is the one before
\* with each placeholder in it replaced by the value of its secret (stated
\* for the names and values in which the replacement itself forms no
\* placeholder out of a value and the text around it)
C25_QueryGated ==
    (HookRan /\ QueryOn) =>
        /\ (\E S \in Entries : QueryHoldsForeign(S)) => Blocked
        /\ Returned =>
               LET before == QueryParams(call.hooked)
                   after  == QueryParams(call.result)
               IN /\ Len(after) = Len(before)
                  /\ \A k \in 1..Len(before) : \A c \in 1..2 :
                         PlaceholderFree(SubstituteAll(before[k][c]))
                             => after[k][c] = SubstituteAll(before[k][c])

\* with the flag on, a request whose query holds the placeholder of a secret
\* in a parameter name and goes to a host of that secret is returned with the
\* value of the secret in place of the placeholder
C25_Witness ==
    /\ HookRan
    /\ QueryOn
    /\ Returned
    /\ \E S \in Entries :
           /\ S.value # <<>>
           /\ HostAllowed(HostnameOf(call.hooked), S.hosts)
           /\ Len(QueryParams(call.hooked)) = 1
           /\ Includes(QueryParams(call.hooked)[1][1], S.placeholder)
           /\ QueryParams(call.result)[1][1] = S.value


\* ------------------------------------------------------------------------
\* Properties of readFile, writeFile and appendFile of the provider
\* (SpecProvider)
\* ------------------------------------------------------------------------

\* how often call i has called op of the backend
BackendCalls(i, op) ==
    Cardinality({k \in 1..Len(events) :
        events[k].kind = "backend" /\ events[k].task = i /\ events[k].op = op})

\* the handle the backend opened for call i of readFile, writeFile or
\* appendFile: the one the call went on with, or the one open had got from the
\* backend when its after hook failed; 0 if the backend opened none
OpenedBy(i) ==
    IF tasks[i].handle # 0 THEN tasks[i].handle
    ELSE IF tasks[i].got # <<>> /\ tasks[i].got[1] = "open" THEN tasks[i].got[2]
    ELSE 0

\* call i is a call of readFile, writeFile or appendFile that has returned or
\* thrown
HelperDone(i) == IsComposite(tasks[i]) /\ tasks[i].status = "done"

\* the hook of that phase failed when call i told it op: it threw, its promise
\* rejected, or it returned a promise to a sync form
HookFailed(i, phase, op) ==
    /\ vfs.hooks[phase] # "absent"
    /\ \/ op \in vfs.throws[phase]
       \/ (tasks[i].sync /\ vfs.hooks[phase] = "async")

\* C26 as stated: when readFile, writeFile or appendFile (or a Sync form) has
\* returned or thrown, the handle the backend opened for it has been closed
\* exactly once and is closed
C26_Stated ==
    \A i \in 1..Len(tasks) :
        (HelperDone(i) /\ OpenedBy(i) # 0)
            => /\ BackendCalls(i, "close") = 1
               /\ backend.handles[OpenedBy(i)].closed

\* C26, what the code does: the handle is closed exactly once, whether the
\* read or write on it failed or not, unless the after hook of open failed
\* (the call never had the handle) or the before hook of release failed (close
\* of the backend is not reached); in these two cases the call throws and the
\* handle is never closed
C26_ClosedUnlessHookFails ==
    \A i \in 1..Len(tasks) :
        (HelperDone(i) /\ OpenedBy(i) # 0)
            => LET leaked == tasks[i].handle = 0 \/ HookFailed(i, "before", "release")
               IN /\ BackendCalls(i, "close") = (IF leaked THEN 0 ELSE 1)
                  /\ backend.handles[OpenedBy(i)].closed = ~leaked
                  /\ tasks[i].handle = 0 => HookFailed(i, "after", "open")
                  /\ leaked => tasks[i].threw

\* the read or write on the handle failed and the handle was closed once
C26_ClosedAfterFailure ==
    \E i \in 1..Len(tasks) :
        /\ HelperDone(i)
        /\ tasks[i].handle # 0
        /\ tasks[i].threw
        /\ BackendCalls(i, "readFile") + BackendCalls(i, "writeFile") = 0
        /\ BackendCalls(i, "close") = 1
        /\ backend.handles[OpenedBy(i)].closed


\* ------------------------------------------------------------------------
\* Properties of hooks that fail (SpecVeto)
\* ------------------------------------------------------------------------

\* what the backend is asked when the hooks are told op
BackendOpOf(op) == IF op = "release" THEN "close" ELSE op

\* the events of call i of that kind for the operation the hooks know as op
EventsFor(i, kind, op) ==
    {k \in 1..Len(events) :
        /\ events[k].task = i
        /\ events[k].kind = kind
        /\ events[k].op = IF kind = "backend" THEN BackendOpOf(op) ELSE op}

\* the backend refused the call: the call threw an error of the file system,
\* or it is exists and answered false though no hook failed
BackendFailed(i) ==
    /\ tasks[i].status = "done"
    /\ \/ tasks[i].threw /\ tasks[i].error.kind = "ErrnoError"
       \/ /\ tasks[i].method = "exists"
          /\ ~tasks[i].threw
          /\ tasks[i].value = <<"exists", FALSE>>
          /\ ~HookFailed(i, "before", "stat")
          /\ ~HookFailed(i, "after", "stat")

\* C30: when the before hook has thrown or rejected for an operation (or has
\* returned a promise to a sync form), the backend is not called for that
\* operation and the after hook is not called for it; with a before hook
\* installed the backend is called only after the before hook has been called
\* for the same operation of the same call; and a call that the backend
\* refused has not called the after hook
C30_BeforeHookVetoes ==
    /\ \A k \in 1..Len(events) :
           /\ (events[k].kind = "before"
                   /\ HookFailed(events[k].task, "before", events[k].op))
                  => /\ EventsFor(events[k].task, "backend", events[k].op) = {}
                     /\ EventsFor(events[k].task, "after", events[k].op) = {}
           /\ (events[k].kind = "backend" /\ vfs.hooks.before # "absent")
                  => \E j \in 1..(k - 1) :
                         /\ events[j].kind = "before"
                         /\ events[j].task = events[k].task
                         /\ BackendOpOf(events[j].op) = events[k].op
    /\ \A i \in 1..Len(tasks) :
           BackendFailed(i) =>
               {k \in 1..Len(events) : events[k].task = i /\ events[k].kind = "after"} = {}

\* unlink of a file through a provider whose before hook throws: the call
\* threw what the hook threw, the hook was called and nothing else was, and
\* the file is still there
C30_Witness ==
    /\ Len(tasks) = 1
    /\ tasks[1].on = "provider"
    /\ tasks[1].method = "unlink"
    /\ tasks[1].input.path = StrF
    /\ ~tasks[1].sync
    /\ tasks[1].status = "done"
    /\ tasks[1].threw
    /\ tasks[1].error = HookError
    /\ events = <<[kind |-> "before", op |-> "unlink", on |-> "provider", task |-> 1]>>
    /\ backend = Populated


\* ------------------------------------------------------------------------
\* Properties of rmdir and unlink of the backend (SpecInodes)
\* ------------------------------------------------------------------------

\* the error code with which the call should fail according to the rules for
\* removal ("" if it should succeed): unlinkRoot is the code for unlink of
\* the root
RemovalCode(b, op, path, unlinkRoot) ==
    LET e == EntryNamed(b, path)
    IN IF normalizePath(path) = StrRoot
       THEN (IF op = "rmdir" THEN "EINVAL" ELSE unlinkRoot)
       ELSE IF e = 0 THEN "ENOENT"
       ELSE IF op = "unlink"
       THEN (IF b.entries[e].kind = "dir" THEN "EISDIR" ELSE "")
       ELSE IF b.entries[e].kind # "dir" THEN "ENOTDIR"
       ELSE IF Len(b.entries[e].children) > 0 THEN "ENOTEMPTY"
       ELSE ""

\* the step is a call of rmdir or unlink that goes by the rules: it fails with
\* the code of the rules and changes no entry, or it succeeds, the entry the
\* path named has no children and is the one entry that can no longer be
\* reached, and no entry is changed but its parent
RemovalByRules(unlinkRoot) ==
    (call'.op \in {"rmdir", "unlink"}) =>
        LET code == RemovalCode(backend, call'.op, call'.input.path, unlinkRoot)
            e    == EntryNamed(backend, call'.input.path)
        IN IF code # ""
           THEN /\ call'.threw
                /\ call'.error.kind = "ErrnoError"
                /\ call'.error.code = code
                /\ backend'.entries = backend.entries
           ELSE /\ ~call'.threw
                /\ e \in Reachable(backend)
                /\ Reachable(backend') = Reachable(backend) \ {e}
                /\ backend.entries[e].children = <<>>
                /\ Len(backend'.entries) = Len(backend.entries)
                /\ \E parent \in Reachable(backend) :
                       /\ MapGet(backend.entries[parent].children,
                                 Basename(normalizePath(call'.input.path))) = e
                       /\ \A i \in 1..Len(backend.entries) :
                              i # parent => backend'.entries[i] = backend.entries[i]

\* C28 as stated: unlink on a directory (the root is one) fails with EISDIR,
\* rmdir on a file with ENOTDIR, rmdir on a directory that has children with
\* ENOTEMPTY, rmdir of the root with EINVAL, either call on a missing path
\* with ENOENT, and a removal that succeeds deletes exactly one childless
\* entry
C28_Stated == [][RemovalByRules("EISDIR")]_vars

\* C28, what the code does: the same, but unlink of the root fails with ENOENT
C28_RemovalButRoot == [][RemovalByRules("ENOENT")]_vars

\* unlink of the root has failed with ENOENT
C28_UnlinkRoot ==
    /\ call.op = "unlink"
    /\ normalizePath(call.input.path) = StrRoot
    /\ call.threw
    /\ call.error.code = "ENOENT"


\* ------------------------------------------------------------------------
\* Properties of the handles of a file (SpecHandles)
\* ------------------------------------------------------------------------

HandleOps == {"read", "write", "readFile", "writeFile", "stat", "truncate", "close"}

\* the step is a call on a handle h that goes by the rules of close: close
\* returns and closes h whatever it was, and changes no file; any other call
\* on a closed h throws EBADF and changes nothing; any other call on an open h
\* does not throw; and no call on h changes another handle
HandleByRules ==
    (call'.op \in HandleOps) =>
        LET h == call'.input.handle
        IN /\ \A g \in 1..Len(backend.handles) :
                  g # h => backend'.handles[g] = backend.handles[g]
           /\ Len(backend'.handles) = Len(backend.handles)
           /\ IF call'.op = "close"
              THEN /\ ~call'.threw
                   /\ backend'.handles[h].closed
                   /\ backend'.entries = backend.entries
              ELSE IF backend.handles[h].closed
              THEN /\ call'.threw
                   /\ call'.error.kind = "ErrnoError"
                   /\ call'.error.code = "EBADF"
                   /\ backend' = backend
              ELSE ~call'.threw

\* C27: a handle of the in-memory backend is usable until it is closed; once
\* it is closed every read, write, readFile, writeFile, stat and truncate on
\* it throws EBADF and leaves the file and the handles as they were, closing
\* it again returns, and a call on one handle, close included, changes no
\* other handle of the file, which goes on working
C27_ClosedHandle == [][HandleByRules]_vars

\* a writeFile on a closed handle has thrown EBADF while the other handle of
\* the file, still open, had changed what the file held after the close
C27_Witness ==
    /\ call.op = "writeFile"
    /\ call.threw
    /\ call.error.code = "EBADF"
    /\ Len(backend.handles) = 2
    /\ backend.handles[call.input.handle].closed
    /\ \E g \in 1..2 : ~backend.handles[g].closed
    /\ ContentOf(backend, 1) \notin {StrHi, <<>>}


\* ------------------------------------------------------------------------
\* Properties of write-then-read (SpecRoundTrip)
\* ------------------------------------------------------------------------

\* the k-th call has been made and returned value
Gave(k, value) ==
    Len(tasks) >= k => (~tasks[k].threw /\ tasks[k].value = <<tasks[k].method, value>>)

\* the k-th call has been made and the list it returned holds name
Listed(k, name) ==
    Len(tasks) >= k =>
        /\ ~tasks[k].threw
        /\ \E n \in 1..Len(tasks[k].value[2]) : tasks[k].value[2][n] = name

\* the file has been opened, written through the handle and closed
Written == Len(tasks) >= 3 /\ \A j \in 1..3 : ~tasks[j].threw

\* after open, writeFile(data) and close: readdir of the parent lists the
\* name, stat reports a file of size |data|, readFile returns data, after
\* appendFile(d2) readFile returns data followed by d2, and after
\* writeFile(d3) it returns d3
RoundTrips ==
    LET data == tasks[2].input.data
    IN /\ Listed(4, Basename(tasks[1].input.path))
       /\ Gave(5, [kind |-> "file", size |-> Len(data)])
       /\ Gave(6, data)
       /\ Gave(7, <<>>)
       /\ Gave(8, data \o tasks[7].input.data)
       /\ Gave(9, <<>>)
       /\ Gave(10, tasks[9].input.data)

PlainAndEmptied ==
    /\ tasks[1].input.path[Len(tasks[1].input.path)] # 47
    /\ tasks[1].input.flags \in {"w", "w+"} \/ tasks[1].input.path # StrF

\* C29, what the code does: the round trip holds when the path ends with no
\* slash and the file is truncated by the flag or was not there before
C29_RoundTripOfEmptied == (Written /\ PlainAndEmptied) => RoundTrips

\* the whole round trip has been made on a file that was there before
C29_RoundTripDone ==
    /\ Len(tasks) = 10
    /\ tasks[1].input.path = StrF
    /\ tasks[1].input.flags = "w"
    /\ Len(backend.entries) = 3
    /\ tasks[10].value = <<"readFile", StrX>>
    /\ tasks[8].value = <<"readFile", StrHi \o StrX>>

\* a file that held "hi" was opened with `a`: writeFile through the handle
\* has appended, and readFile returns "hi" followed by the data
C29_Appended ==
    /\ Len(tasks) >= 6
    /\ tasks[1].input.flags = "a"
    /\ ~tasks[6].threw
    /\ tasks[6].value = <<"readFile", StrHi \o tasks[2].input.data>>

\* a file was made by open on a path that ends with a slash, and stat of the
\* same path finds nothing
C29_SlashLost ==
    /\ Len(tasks) >= 5
    /\ Written
    /\ tasks[1].input.path = StrGSlash
    /\ tasks[5].threw
    /\ tasks[5].error.code = "ENOENT"


\* ------------------------------------------------------------------------
\* Properties of the creating calls of the backend (SpecInodes)
\* ------------------------------------------------------------------------

\* the normalized path ends with a slash and is not the root
EndsWithSlash(path) ==
    LET n == normalizePath(path) IN Len(n) > 1 /\ n[Len(n)] = 47

\* the step is a mkdir, or an open with a creating flag
Creating ==
    \/ call'.op = "mkdir"
    \/ call'.op = "open" /\ call'.input.flags \in CreatingFlags

\* every entry that could be reached can be reached at its path as it was,
\* but for the file that open has emptied
EntriesKept(emptied) ==
    \A pe \in entries(backend) :
        /\ pe \in entries(backend')
        /\ backend'.entries[pe[2]].kind = backend.entries[pe[2]].kind
        /\ backend'.entries[pe[2]].ino = backend.entries[pe[2]].ino
        /\ pe[2] # emptied => backend'.entries[pe[2]].content = backend.entries[pe[2]].content

\* the creating call goes by the rules: on a path that names an entry, mkdir
\* throws EEXIST, or is recursive on a directory and changes nothing (as the
\* code has it, mkdir of the root also returns and changes nothing when it is
\* not recursive), and open throws EISDIR if the entry is a directory; and a
\* call that returns keeps every entry where it was, with what it held, but
\* for the file that open with `w` or `w+` has emptied
CreatingByRules(rootReturns) ==
    LET path == call'.input.path
        e    == EntryNamed(backend, path)
    IN /\ (e # 0 /\ call'.op = "mkdir") =>
              IF backend.entries[e].kind = "dir"
                 /\ (call'.input.recursive \/ (rootReturns /\ e = 1))
              THEN ~call'.threw /\ backend'.entries = backend.entries
              ELSE call'.threw /\ call'.error.code = "EEXIST"
       /\ (e # 0 /\ call'.op = "open" /\ backend.entries[e].kind = "dir") =>
              call'.threw /\ call'.error.code = "EISDIR"
       /\ ~call'.threw =>
              EntriesKept(IF call'.op = "open" /\ call'.input.flags \in {"w", "w+"}
                          THEN e ELSE 0)

\* C31 as stated: no creating call replaces or removes an entry, whatever the
\* path (a slash at its end included): mkdir on a path that names an entry
\* throws EEXIST or (recursive, directory) changes nothing, open with a
\* creating flag on a directory throws EISDIR, and after a creating call that
\* returned every entry is where it was and holds what it held, but for the
\* file emptied by `w` or `w+`
C31_Stated == [][Creating => CreatingByRules(FALSE)]_vars

\* C31, what the code does: the same for the paths that end with no slash,
\* with mkdir of the root returning whether recursive or not
C31_CreatingWithoutSlash ==
    [][(Creating /\ ~EndsWithSlash(call'.input.path)) => CreatingByRules(TRUE)]_vars

\* mkdir("/a/") has returned where /a was a directory with a child: /a is
\* now a new, empty directory
C31_Replaced ==
    /\ call.op = "mkdir"
    /\ call.input.path = StrASlash
    /\ ~call.threw
    /\ EntryAt(backend, StrA) = Len(backend.entries)
    /\ Len(backend.entries) >= 4
    /\ backend.entries[2].children # <<>>


\* ------------------------------------------------------------------------
\* Properties of rename of the backend (SpecInodes)
\* ------------------------------------------------------------------------

\* path is at or below dir
AtOrBelow(path, dir) ==
    \/ path = dir
    \/ /\ Len(path) > Len(dir)
       /\ SubSeq(path, 1, Len(dir)) = dir
       /\ path[Len(dir) + 1] = 47

\* the path a rename acts on: normalized, without the slash at its end
Plain(path) == StripTrailing(normalizePath(path))

\* the inode numbers of the entries that can be reached from the root
ReachableInos(b) == {b.entries[e].ino : e \in Reachable(b)}

\* the rename conserves the file system: the same inodes can be reached, the
\* entry and everything below it is found under the new path and no longer
\* under the old one, and every other entry is where it was
Conserved(source, target) ==
    /\ ReachableInos(backend') = ReachableInos(backend)
    /\ \A pe \in entries(backend) :
           IF AtOrBelow(pe[1], source)
           THEN /\ <<target \o SubSeq(pe[1], Len(source) + 1, Len(pe[1])), pe[2]>>
                       \in entries(backend')
                /\ pe \notin entries(backend')
           ELSE pe \in entries(backend')
    /\ Cardinality(entries(backend')) = Cardinality(entries(backend))

\* the step is a rename that returned
Renamed == call'.op = "rename" /\ ~call'.threw

\* C32 as stated: every rename that returns conserves the file system, a
\* destination inside the source directory included
C32_Stated ==
    [][Renamed => Conserved(Plain(call'.input.path), Plain(call'.input.newPath))]_vars

\* C32, what the code does: a rename that returns conserves the file system
\* unless the destination lies below the source; then the source and all
\* below it can no longer be reached, and nothing else moves
C32_ConservedUnlessInside ==
    [][Renamed =>
          LET source == Plain(call'.input.path)
              target == Plain(call'.input.newPath)
          IN IF AtOrBelow(target, source)
             THEN entries(backend') =
                      {pe \in entries(backend) : ~AtOrBelow(pe[1], source)}
             ELSE Conserved(source, target)]_vars

\* rename("/a", "/a/b") has returned: /a was a directory and nothing is
\* left under the root
C32_Detached ==
    /\ call.op = "rename"
    /\ ~call.threw
    /\ call.input.path = StrA
    /\ call.input.newPath = StrAB
    /\ Reachable(backend) = {1}
    /\ Len(backend.entries) >= 2

\* rename("/a", "/b") has returned where /a was a directory with a child: the
\* child is found at /b/b
C32_Moved ==
    /\ call.op = "rename"
    /\ ~call.threw
    /\ call.input.path = StrA
    /\ call.input.newPath = StrB
    /\ EntryAt(backend, StrB \o <<47, 98>>) # 0


\* ------------------------------------------------------------------------
\* The shape of the tree of the backend (SpecInodes)
\* ------------------------------------------------------------------------

\* the ways down from the root, as the entries passed, that take at most fuel
\* steps more than chain
RECURSIVE WaysDown(_, _, _)
WaysDown(b, chain, fuel) ==
    {chain} \cup
    (IF fuel = 0 \/ b.entries[chain[Len(chain)]].kind # "dir" THEN {}
     ELSE UNION {WaysDown(b, Append(chain, b.entries[chain[Len(chain)]].children[i].id),
                          fuel - 1) :
                     i \in 1..Len(b.entries[chain[Len(chain)]].children)})

\* every way down from the root, followed for one step more than there are
\* entries
AllWaysDown(b) == WaysDown(b, <<1>>, Len(b.entries))

\* no way down passes an entry twice (no directory is below itself), and no
\* two ways down end at the same entry (every entry has one path)
IsTree(b) ==
    /\ \A w \in AllWaysDown(b) : \A i, j \in 1..Len(w) : i # j => w[i] # w[j]
    /\ \A w1, w2 \in AllWaysDown(b) : w1[Len(w1)] = w2[Len(w2)] => w1 = w2

\* C37: in every state of the backend the entries that can be reached from
\* the root form a tree - each has exactly one path from the root and no
\* directory is below itself - so the walk of entries() ends, and it finds
\* exactly the entries the ways down lead to, one path for each
C37_Tree ==
    /\ IsTree(backend)
    /\ Reachable(backend) = {w[Len(w)] : w \in AllWaysDown(backend)}
    /\ Cardinality(entries(backend)) = Cardinality(Reachable(backend))

\* a rename into the source has left a directory that holds itself, out of
\* reach of the root, beside a tree of two levels
C37_Witness ==
    /\ \E e \in 1..Len(backend.entries) :
           /\ e \notin Reachable(backend)
           /\ backend.entries[e].kind = "dir"
           /\ \E i \in 1..Len(backend.entries[e].children) :
                  backend.entries[e].children[i].id = e
    /\ \E w \in AllWaysDown(backend) : Len(w) = 3


\* ------------------------------------------------------------------------
\* Properties of the calls of the backend that throw (SpecDeep)
\* ------------------------------------------------------------------------

PathOps == {"open", "mkdir", "rmdir", "unlink", "rename", "truncate", "stat", "readdir"}

\* the step is a call of the backend that threw
Threw == call'.op \in PathOps /\ call'.threw

\* C34: a call of the backend that throws, whatever the error, leaves every
\* entry (its kind, its children, its content, its inode number), reachable
\* or not, and the inode counter as they were; a recursive mkdir that throws
\* has made no directory on the way and a rename that throws has removed
\* nothing
C34_FailureChangesNothing ==
    [][Threw => /\ backend'.entries = backend.entries
                /\ backend'.nextIno = backend.nextIno]_vars

\* mkdir("/a/b/c", recursive) has thrown EEXIST because /a is a file: /a/b
\* was not made
C34_Witness ==
    /\ call.op = "mkdir"
    /\ call.input.path = StrABC
    /\ call.input.recursive
    /\ call.threw
    /\ call.error.code = "EEXIST"
    /\ EntryAt(backend, StrA) # 0
    /\ backend.entries[EntryAt(backend, StrA)].kind = "file"
    /\ backend.entries[EntryAt(backend, StrA)].content # <<>>
    /\ EntryAt(backend, StrAB) = 0


\* ------------------------------------------------------------------------
\* Properties of append handles (SpecAppend)
\* ------------------------------------------------------------------------

\* the step is a write without a position that returned, on a handle opened
\* with `a` or `a+`
AppendWrite ==
    /\ call'.op = "write"
    /\ call'.input.position = <<>>
    /\ ~call'.threw
    /\ backend.handles[call'.input.handle].flags \in AppendingFlags

\* C33 as stated: a write without a position on an append handle puts its
\* bytes at the end of the file as it is at that moment: the file is what it
\* was, followed by the bytes written
C33_Stated ==
    [][AppendWrite =>
          ContentOf(backend', call'.input.handle)
              = ContentOf(backend, call'.input.handle) \o call'.input.data]_vars

\* C33, what the code does: the bytes are laid over the file from the
\* position of the handle - the length the file had when the handle was
\* opened, moved on by what the handle itself has read or written since -
\* wherever the end of the file is by then
C33_WritesAtOwnPosition ==
    [][AppendWrite =>
          LET h == call'.input.handle
          IN /\ ContentOf(backend', h)
                    = Overlaid(ContentOf(backend, h), backend.handles[h].position,
                               call'.input.data)
             /\ backend'.handles[h].position
                    = backend.handles[h].position + Len(call'.input.data)]_vars

\* a write without a position through an append handle has returned and the
\* handle stands before the end of the file: the bytes were laid over bytes
\* the file already had, written there through another handle
C33_Overwritten ==
    /\ call.op = "write"
    /\ call.input.position = <<>>
    /\ ~call.threw
    /\ Len(backend.handles) = 2
    /\ backend.handles[call.input.handle].flags \in AppendingFlags
    /\ backend.handles[call.input.handle].position
           < Len(ContentOf(backend, call.input.handle))


\* ------------------------------------------------------------------------
\* Properties of the access mode of a handle (SpecModes)
\* ------------------------------------------------------------------------

ReadingOps == {"read", "readFile"}

ChangingOps == {"write", "writeFile", "truncate"}

\* the step is op through a handle opened with flags
Through(ops, flags) ==
    /\ call'.op \in ops
    /\ backend.handles[call'.input.handle].flags \in flags

\* C36 as stated: a handle enforces the access mode it was opened with:
\* write, writeFile and truncate through a handle opened with `r` fail and
\* leave the file as it was, and read and readFile through a handle opened
\* with `w` or `a` fail
C36_Stated ==
    [][/\ Through(ChangingOps, {"r"}) =>
              /\ call'.threw
              /\ backend'.entries = backend.entries
       /\ Through(ReadingOps, {"w", "a"}) => call'.threw]_vars

\* C36, what the code does: the access mode decides nothing once the handle
\* exists: through a handle that is not closed every read, write and truncate
\* returns, whatever the flags, and a write or truncate through an `r` handle
\* changes the file as it would through any other
C36_ModeNotEnforced ==
    [][(/\ call'.op \in ReadingOps \cup ChangingOps
        /\ ~backend.handles[call'.input.handle].closed)
          => /\ ~call'.threw
             /\ call'.op = "truncate" =>
                    Len(ContentOf(backend', call'.input.handle)) = call'.input.length
             /\ call'.op = "writeFile" /\ ~Through({"writeFile"}, {"a"}) =>
                    ContentOf(backend', call'.input.handle) = call'.input.data]_vars

\* a handle opened with `r` on "hi" has truncated the file to one byte
C36_TruncatedThroughReader ==
    /\ call.op = "truncate"
    /\ ~call.threw
    /\ backend.handles[call.input.handle].flags = "r"
    /\ call.input.length = 1
    /\ ContentOf(backend, call.input.handle) = <<104>>

\* a handle opened with `w` has read the byte it wrote
C36_ReadThroughWriter ==
    /\ call.op = "read"
    /\ ~call.threw
    /\ backend.handles[call.input.handle].flags = "w"
    /\ call.value = <<"read", <<104>>>>


\* ------------------------------------------------------------------------
\* Properties of a provider over a read-only backend: open and the handles
\* (SpecProvider)
\* ------------------------------------------------------------------------

WritingFlags == {"w", "w+", "a", "a+", "r+"}

\* the calls of open with a writing flag made through the provider
WritingOpens ==
    {id \in 1..Len(tasks) :
        /\ tasks[id].on = "provider"
        /\ tasks[id].method = "open"
        /\ tasks[id].input.flags \in WritingFlags}

\* the calls of write, writeFile and truncate made through a handle
HandleChanges ==
    {id \in 1..Len(tasks) :
        tasks[id].on = "handle" /\ tasks[id].method \in {"write", "writeFile", "truncate"}}

\* the mutating methods of the backend and of its handles that were called
MutatingBackendCalls ==
    {i \in 1..Len(events) :
        /\ events[i].kind = "backend"
        /\ events[i].task \in WritingOpens \cup HandleChanges
        /\ events[i].op \in {"open", "write", "writeFile", "truncate"}}

\* C35 as stated: over a read-only backend no mutating method of the backend
\* is called: open with a writing, creating or appending flag is rejected with
\* EROFS by the provider, and the handles do not write or truncate
C35_Stated ==
    backend.readonly =>
        /\ MutatingBackendCalls = {}
        /\ \A id \in WritingOpens :
               tasks[id].status = "done" =>
                   tasks[id].threw /\ tasks[id].error.code = "EROFS"

\* C35, what the code does: open and the methods of a handle do not look at
\* `readonly`: over a read-only backend none of them fails with EROFS, and
\* each calls the backend, with the flags and the data it was given, unless
\* it is a sync call refused because the before hook returned a promise
C35_OpenNotGuarded ==
    backend.readonly =>
        \A id \in WritingOpens \cup HandleChanges :
            tasks[id].status = "done" =>
                /\ ~(tasks[id].threw /\ tasks[id].error.kind = "ErrnoError"
                        /\ tasks[id].error.code = "EROFS")
                /\ BackendNotCalled(id) =>
                       tasks[id].sync /\ vfs.hooks.before = "async"
                           /\ ThrewAsyncHookError(tasks[id])

\* over a read-only backend open('/f', 'w+') has returned a handle and
\* writeFile through the handle has returned: the backend's open and the
\* handle's writeFile were called
C35_WroteOverReadOnly ==
    /\ backend.readonly
    /\ Len(tasks) = 2
    /\ 1 \in WritingOpens /\ WentThrough(tasks[1])
    /\ 2 \in HandleChanges /\ tasks[2].method = "writeFile" /\ WentThrough(tasks[2])
    /\ \E i, j \in MutatingBackendCalls :
           /\ i < j
           /\ events[i].task = 1 /\ events[i].op = "open"
           /\ events[j].task = 2 /\ events[j].op = "writeFile"


\* ------------------------------------------------------------------------
\* Properties of a second application of the secrets (Spec)
\* ------------------------------------------------------------------------

\* applySecretsToRequest applied to the request the call returned
AppliedAgain ==
    applySecretsToRequest(call.result, hooks.secretEntries,
                          Coalesce(options.replaceSecretsInQuery, FALSE))

\* the second application returns the url and the headers it was given
SameAgain ==
    /\ ~AppliedAgain.threw
    /\ AppliedAgain.value.url = call.result.url
    /\ AppliedAgain.value.headers = call.result.headers

\* C38 as stated: whenever applySecretsToRequest succeeds, applying it again
\* to its own result succeeds and returns the same url and the same headers
C38_Stated == Returned => SameAgain

\* text occurs where the secrets are looked for in the returned request: in a
\* header, literally or inside a decoded Basic token, or in the query when
\* replaceSecretsInQuery is on
InResult(text) ==
    \/ InHeaders(call.result, text)
    \/ (QueryOn /\ InQuery(call.result, text))

\* the returned request holds no placeholder and no value of a secret that
\* its host does not match
Settled ==
    \A S \in Entries :
        /\ ~InResult(S.placeholder)
        /\ (S.value # <<>> /\ ~HostAllowed(HostnameOf(call.result), S.hosts))
               => ~InResult(S.value)

\* C38 amended: whenever applySecretsToRequest succeeds and its result holds,
\* where the secrets are looked for, no placeholder of a secret and no
\* non-empty value of a secret that the host does not match, applying it
\* again succeeds and returns the same url and the same headers; a result
\* that holds one of them is substituted again or blocked
C38_IdempotentOnceSettled ==
    Returned =>
        /\ Settled => SameAgain
        /\ ~SameAgain =>
               \E S \in Entries :
                   \/ InResult(S.placeholder)
                   \/ /\ AppliedAgain.threw
                      /\ AppliedAgain.error.kind = "HttpRequestBlockedError"
                      /\ S.value # <<>>
                      /\ InResult(S.value)
                      /\ ~HostAllowed(HostnameOf(call.result), S.hosts)

\* a Basic credential whose token held a placeholder was returned with the
\* value encoded in its place, and a second application leaves it alone
C38_Witness ==
    /\ Returned
    /\ Settled
    /\ SameAgain
    /\ \E h \in 1..Len(call.result.headers) :
           /\ call.result.headers[h].value # call.hooked.headers[h].value
           /\ BasicTokenText(call.result.headers[h]) # <<>>
           /\ \E S \in Entries :
                  /\ S.value # <<>>
                  /\ Includes(BasicTokenText(call.hooked.headers[h]), S.placeholder)
                  /\ Includes(BasicTokenText(call.result.headers[h]), S.value)

\* the second application blocks a request that the first one returned
C38_BlockedAgain ==
    /\ Returned
    /\ AppliedAgain.threw
    /\ \A S \in Entries : ~InResult(S.placeholder)

\* the second application substitutes where the first one has formed a
\* placeholder
C38_SubstitutedAgain ==
    /\ Returned
    /\ ~AppliedAgain.threw
    /\ AppliedAgain.value.headers # call.result.headers


\* ------------------------------------------------------------------------
\* Properties of the objects given to onRequestHead (SpecObjects)
\* ------------------------------------------------------------------------

GivenCells == {"request", "requestHeaders", "updated", "updatedHeaders"}

\* the head kept for the buffered hook, with the header map it refers to
KeptHead ==
    [url |-> call.heap.forBodyHook.url,
     headers |-> call.heap[call.heap.forBodyHook.headers]]

\* C39: onRequestHead, whether it returns or throws, leaves the request object
\* and the header map it was given, and those the user hook returned, as they
\* were; the head it attaches for the buffered hook carries the URL and the
\* headers as the user hook left them, before substitution, and holds the
\* value of a secret only where the request held it then; the request it
\* returns is the one computed from the values
C39_GivenObjectsKept ==
    call.op = "onRequestHead" =>
        /\ \A c \in GivenCells : call.heap[c] = call.before[c]
        /\ (Returned /\ call.heap.out.attached) =>
               /\ KeptHead.url = call.hooked.url
               /\ KeptHead.headers = call.hooked.headers
               /\ \A S \in Entries :
                      (S.value # <<>> /\ InHeaders(KeptHead, S.value))
                          => InHeaders(call.hooked, S.value)
        /\ Returned =>
               /\ call.heap.out.url = call.result.url
               /\ call.heap[call.heap.out.headers] = call.result.headers
               /\ call.heap.out.attached
                      <=> (options.has.onRequest /\ call.hooked.requestForBodyHook.isNull)

\* onRequestHead returned a request in which the placeholder of a secret was
\* replaced by its value, with a head attached that still holds the
\* placeholder and not the value
C39_Witness ==
    /\ call.op = "onRequestHead"
    /\ Returned
    /\ call.heap.out.attached
    /\ \E S \in Entries :
           /\ S.value # <<>>
           /\ InHeaders(call.result, S.value)
           /\ ~InHeaders(KeptHead, S.value)
           /\ LiterallyInHeaders(KeptHead, S.placeholder)

\* onRequestHead threw at the second header after it had written the value of
\* a secret into the first: the value is in the copy of the header map and
\* the map given holds the placeholder
C39_ThrewAfterWrite ==
    /\ call.op = "onRequestHead"
    /\ Blocked
    /\ Len(call.heap.headersCopy) = 2
    /\ call.heap.headersCopy[1].value # call.hooked.headers[1].value
    /\ call.heap.requestHeaders = call.request.headers

====
